---- MODULE Spec2Model ----
(***************************************************************************)
(* Cologne Transportation Navigator: the retry wrapper around the Gemini   *)
(* calls, the four Gemini-backed service functions, and the session        *)
(* orchestrator of App.tsx.                                                *)
(***************************************************************************)
EXTENDS Integers, Sequences, FiniteSets, TLC

VARIABLES
    caller,       \* who runs retryGeminiCall: "direct", "street", "route", "live", "weather"
    maxRetries,   \* retryGeminiCall's maxRetries parameter
    baseDelay,    \* retryGeminiCall's baseDelay parameter
    attempt,      \* the for loop's counter
    lastError,    \* retryGeminiCall's lastError local
    calls,        \* number of invocations of operation() so far
    waits,        \* the delays handed to setTimeout so far, in order
    pc,           \* position of the running call
    retValue,     \* what retryGeminiCall returned or threw
    vehicleType,  \* argument of the service function
    osmData,      \* argument of analyzeStreetConditions
    result,       \* what the service function returned to its caller
    \* --- App.tsx: the useState cells
    selectedVehicle, mode, analysis, highlightedSegments, isHighlightSuitable,
    routePoints, routeCoordinates, routeAnalysis, routeStreetNames,
    loading, liveTraffic, markers, error,
    \* --- App.tsx: the handlers in flight
    tasks,        \* one record per user action so far, in order; its index is its id
    analysisOf,   \* id of the request whose result `analysis` holds, 0 when null
    liveTrafficOf,    \* the same for liveTraffic
    routeAnalysisOf,  \* the same for routeAnalysis
    weather,      \* the useState cell the weather fetch of the mount effect fills
    \* --- one call of a map-service function (routing, geocoding, Overpass lookups)
    geoFn,        \* the function called, "none" when no call is modelled
    geoArgs,      \* its arguments
    geoBackend,   \* how the remote service will answer the request
    geoPc,        \* "idle", "ready", "awaiting" (the fetch is pending), "done"
    geoRequests,  \* the requests handed to fetch so far, in order
    geoResult,    \* how the call ended: Return(value) or Throw(error); Undef before
    \* --- InfoPanel.tsx: the AnimatedRouteMarker mounted while routeCoordinates is not empty
    startTimeRef, \* startTimeRef.current, 0 while unset
    requestRef,   \* the animation frame requested and not yet run or cancelled: the
                  \* route and vehicle its callback closes over; Null when there is none
    frameTime,    \* the timestamp of the latest animation frame
    frame         \* what the latest run of animate computed for the current polyline

retryVars == <<caller, maxRetries, baseDelay, attempt, lastError, calls, waits, pc, retValue>>
svcVars == <<vehicleType, osmData, result>>
stateVars == <<selectedVehicle, mode, analysis, highlightedSegments, isHighlightSuitable,
               routePoints, routeCoordinates, routeAnalysis, routeStreetNames,
               loading, liveTraffic, markers, error>>
appVars == <<stateVars, tasks, analysisOf, liveTrafficOf, routeAnalysisOf>>
geoVars == <<geoFn, geoArgs, geoBackend, geoPc, geoRequests, geoResult>>
animVars == <<startTimeRef, requestRef, frameTime, frame>>
vars == <<retryVars, svcVars, appVars, geoVars, animVars, weather>>

(***************************************************************************)
(* JavaScript values.  Every value carries its type tag, so that a test    *)
(* such as data.congestionCurve?.length === 12 is decided as the engine    *)
(* decides it for a value of any type.                                     *)
(***************************************************************************)
Undef == [t |-> "undef"]
Null == [t |-> "null"]
Str(s) == [t |-> "str", v |-> s]
Num(n) == [t |-> "num", v |-> n]
Bool(b) == [t |-> "bool", v |-> b]
Arr(a) == [t |-> "arr", v |-> a]

\* JavaScript truthiness, as used by || and by if (...)
Truthy(x) ==
    CASE x.t = "undef" -> FALSE
      [] x.t = "null" -> FALSE
      [] x.t = "str" -> x.v # ""
      [] x.t = "num" -> x.v # 0
      [] x.t = "bool" -> x.v
      [] OTHER -> TRUE

\* a || b
OrElse(a, b) == IF Truthy(a) THEN a ELSE b

(***************************************************************************)
(* Errors.  status and code are 0 when the error object has no such        *)
(* property; message is a sequence of words, or NoMessage when the error   *)
(* has no message.  id is the number of the invocation that raised it      *)
(* (0: raised by the service function itself), which tells two error       *)
(* objects of the same shape apart.  A let without initialiser holds       *)
(* Undef, which is no error object.                                        *)
(***************************************************************************)
NoMessage == <<"<undefined>">>

MkError(id, status, code, message) ==
    [t |-> "error", id |-> id, status |-> status, code |-> code, message |-> message]

\* new Error(message), a SyntaxError or a TypeError raised inside a service function
LocalError(message) == MkError(0, 0, 0, message)

\* How a function call ends: it returns a value or throws one.
Return(v) == [kind |-> "return", value |-> v]
Throw(e) == [kind |-> "throw", value |-> e]

\* error.message?.includes(word)
Includes(message, word) ==
    /\ message # NoMessage
    /\ \E i \in 1..Len(message) : message[i] = word

\* The shapes of the errors ai.models.generateContent rejects with.
ErrorShapes ==
    { [status |-> 429, code |-> 0,   message |-> <<"Too", "Many", "Requests">>],
      [status |-> 0,   code |-> 429, message |-> NoMessage],
      [status |-> 0,   code |-> 0,   message |-> <<"got", "status", "429">>],
      [status |-> 0,   code |-> 0,   message |-> <<"quota", "exceeded">>],
      [status |-> 0,   code |-> 0,   message |-> <<"RESOURCE_EXHAUSTED">>],
      [status |-> 500, code |-> 500, message |-> <<"Internal", "error">>],
      [status |-> 0,   code |-> 0,   message |-> <<"fetch", "failed">>],
      [status |-> 0,   code |-> 0,   message |-> NoMessage] }

\* error.status === 429 || error.code === 429 || error.message?.includes('429')
\*   || error.message?.includes('quota') || error.message?.includes('RESOURCE_EXHAUSTED')
IsRateLimitError(err) ==
    \/ err.status = 429
    \/ err.code = 429
    \/ Includes(err.message, "429")
    \/ Includes(err.message, "quota")
    \/ Includes(err.message, "RESOURCE_EXHAUSTED")

(***************************************************************************)
(* retryGeminiCall                                                         *)
(***************************************************************************)
DefaultMaxRetries == 4
DefaultBaseDelay == 2500
WeatherMaxRetriesAsDefault == DefaultMaxRetries
WeatherMaxRetries == 2
WeatherBaseDelay == 2000

\* Bound of the policies the wrapper is exercised with on its own.
MaxRetriesBound == 4
BaseDelays == {1, DefaultBaseDelay, WeatherBaseDelay}

\* const isRateLimit = ... in retryGeminiCall's catch block
RetryIsRateLimit(err) == IsRateLimitError(err)

ShouldRetryAnyError(err, att, maxR) == att < maxR
ShouldRetryPastBudget(err, att, maxR) == RetryIsRateLimit(err) /\ att <= maxR
\* if (isRateLimit && attempt < maxRetries)
ShouldRetry(err, att, maxR) == RetryIsRateLimit(err) /\ att < maxR

BackoffLinear(base, att) == base * (att + 1)
\* const delay = baseDelay * Math.pow(2, attempt)
BackoffDelay(base, att) == base * 2^att

\* for (...; attempt <= maxRetries; ...): the loop guard, evaluated on entry and
\* after each continue.  When it fails the loop is left and line 146 throws lastError.
LoopGuard(att, maxR) == att <= maxR

\* The responses operation() can resolve with when the wrapper is exercised on its own.
DirectResponses == {Str("response")}

\* let lastError; for (let attempt = 0; attempt <= maxRetries; ...)
RetryEnter ==
    /\ pc = "start"
    /\ attempt' = 0
    /\ lastError' = Undef
    /\ IF LoopGuard(0, maxRetries)
       THEN pc' = "try" /\ retValue' = retValue
       ELSE pc' = "thrown" /\ retValue' = Undef
    /\ UNCHANGED <<caller, maxRetries, baseDelay, calls, waits, svcVars, appVars, geoVars, animVars, weather>>

\* return await operation(): the invocation
RetryInvoke ==
    /\ pc = "try"
    /\ calls' = calls + 1
    /\ pc' = "pending"
    /\ UNCHANGED <<caller, maxRetries, baseDelay, attempt, lastError, waits, retValue, svcVars, appVars, geoVars, animVars, weather>>

\* operation() rejects with error: the catch block
RetryCatch(shape) ==
    /\ pc = "pending"
    /\ LET err == MkError(calls, shape.status, shape.code, shape.message) IN
       /\ lastError' = err
       /\ IF ShouldRetry(err, attempt, maxRetries)
          THEN /\ waits' = Append(waits, BackoffDelay(baseDelay, attempt))
               /\ pc' = "waiting"
               /\ retValue' = retValue
          ELSE /\ waits' = waits
               /\ pc' = "thrown"
               /\ retValue' = err
    /\ UNCHANGED <<caller, maxRetries, baseDelay, attempt, calls, svcVars, appVars, geoVars, animVars, weather>>

\* the timer of await new Promise(resolve => setTimeout(resolve, delay)) fires;
\* continue; attempt++; loop guard; line 146 when the guard fails
RetryTimer ==
    /\ pc = "waiting"
    /\ attempt' = attempt + 1
    /\ IF LoopGuard(attempt + 1, maxRetries)
       THEN pc' = "try" /\ retValue' = retValue
       ELSE pc' = "thrown" /\ retValue' = lastError
    /\ UNCHANGED <<caller, maxRetries, baseDelay, lastError, calls, waits, svcVars, appVars, geoVars, animVars, weather>>

\* operation() resolves: return await operation()
RetryReturn(response) ==
    /\ pc = "pending"
    /\ pc' = "returned"
    /\ retValue' = response
    /\ UNCHANGED <<caller, maxRetries, baseDelay, attempt, lastError, calls, waits, svcVars, appVars, geoVars, animVars, weather>>

(***************************************************************************)
(* Objects and response texts                                              *)
(***************************************************************************)
Obj(fields) == [t |-> "obj", v |-> fields]

\* o.k for a value o that is neither null nor undefined
Get(o, k) == IF o.t = "obj" /\ k \in DOMAIN o.v THEN o.v[k] ELSE Undef

\* {...o}: the own properties of o.  Numbers and booleans have none.
Spread(o) == IF o.t = "obj" THEN o.v ELSE <<>>

\* x?.length.  The values tested here are arrays, numbers, null and undefined.
OptLength(x) == IF x.t = "arr" THEN Num(Len(x.v)) ELSE Undef

\* A response text that is the JSON serialisation of value.
JsonText(value) == [t |-> "str", v |-> "<json>", json |-> value]
\* A response text that is no JSON: JSON.parse rejects it with a SyntaxError whose
\* message the engine chooses (it may quote the text or name the failing position).
InvalidText(message) == [t |-> "str", v |-> "<not json>", parseError |-> message]

\* JSON.parse(text)
JSONParse(text) ==
    IF "json" \in DOMAIN text THEN Return(text.json)
    ELSE IF "parseError" \in DOMAIN text THEN Throw(LocalError(text.parseError))
    ELSE Throw(LocalError(<<"Unexpected", "end", "of", "JSON", "input">>))

SyntaxErrorMessages ==
    { <<"Unexpected", "token", "in", "JSON", "at", "position", "7">>,
      <<"Unexpected", "token", "in", "JSON", "at", "position", "429">>,
      <<"Unexpected", "token", "quota", "is", "not", "valid", "JSON">> }

TextResponse(text) == [t |-> "response", text |-> text, chunks |-> Undef]

(***************************************************************************)
(* analyzeStreetConditions                                                 *)
(***************************************************************************)
VehicleTypes == {"Car", "LKW (Light < 7.5t)", "LKW (Heavy > 7.5t)"}

\* What getNearestStreetDetails hands over: null, or the tags of the nearest way
\* (name and type always set, width and lanes a non-empty string or undefined).
OsmContexts ==
    { Null,
      [t |-> "obj", name |-> Str("Hohe Strasse"), type |-> Str("pedestrian"),
       width |-> Str("2.8"), lanes |-> Str("1")],
      [t |-> "obj", name |-> Str("Aachener Strasse"), type |-> Str("primary"),
       width |-> Undef, lanes |-> Str("2")],
      [t |-> "obj", name |-> Str("Unnamed Road"), type |-> Str("unknown"),
       width |-> Str("6"), lanes |-> Undef] }

\* osmData?.name, osmData?.width, osmData?.lanes
OsmName(osm) == IF osm.t = "obj" THEN osm.name ELSE Undef
OsmWidth(osm) == IF osm.t = "obj" THEN osm.width ELSE Undef
OsmLanes(osm) == IF osm.t = "obj" THEN osm.lanes ELSE Undef

\* `${osmData.width}m`
WidthWithUnit(w) ==
    CASE w = "2.8" -> "2.8m"
      [] w = "6" -> "6m"
      [] OTHER -> "<width>m"

\* osmData?.width ? `${osmData.width}m` : fallback
OsmWidthLabel(osm, fallback) ==
    IF Truthy(OsmWidth(osm)) THEN Str(WidthWithUnit(OsmWidth(osm).v)) ELSE fallback

CurveLength == 12
DefaultCurve == <<2, 2, 3, 7, 9, 6, 5, 8, 9, 5, 3, 2>>
DegradedCurve == <<2, 2, 2, 5, 5, 5, 5, 5, 5, 5, 2, 2>>
FailedCurve == <<0, 0, 0, 0, 0, 0, 0, 0, 0, 0, 0, 0>>

\* new Date().toLocaleTimeString()
LocaleTime == Str("<time>")

MergedStreetWidthOsmFirst(data, osm) == OrElse(OsmWidthLabel(osm, Undef), Get(data, "streetWidth"))
\* streetWidth: data.streetWidth || (osmData?.width ? `${osmData.width}m` : undefined)
MergedStreetWidth(data, osm) == OrElse(Get(data, "streetWidth"), OsmWidthLabel(osm, Undef))

MergedLanesGenerated(data, osm) == OrElse(Get(data, "lanes"), OsmLanes(osm))
\* lanes: osmData?.lanes
MergedLanes(data, osm) == OsmLanes(osm)

MergedCurveUnchecked(data) == Get(data, "congestionCurve")
\* congestionCurve: data.congestionCurve?.length === 12 ? data.congestionCurve : [2,2,3,...]
MergedCurve(data) ==
    IF OptLength(Get(data, "congestionCurve")) = Num(CurveLength)
    THEN Get(data, "congestionCurve")
    ELSE Arr(DefaultCurve)

\* the merge with the width rule of the prompt applied to the verified width
MergeStreetWidthRule(data, osm) ==
    Obj([isTruckSuitable |-> IF OsmWidth(osm) = Str("2.8") THEN Bool(FALSE)
                             ELSE Get(data, "isTruckSuitable"),
         streetWidth |-> MergedStreetWidth(data, osm),
         lanes |-> MergedLanes(data, osm),
         congestionCurve |-> MergedCurve(data),
         lastUpdated |-> LocaleTime] @@ Spread(data))
\* return { ...data, streetWidth: ..., lanes: ..., congestionCurve: ..., lastUpdated: ... }
MergeStreet(data, osm) ==
    Obj([streetWidth |-> MergedStreetWidth(data, osm),
         lanes |-> MergedLanes(data, osm),
         congestionCurve |-> MergedCurve(data),
         lastUpdated |-> LocaleTime] @@ Spread(data))

\* The body of analyzeStreetConditions' try block after the awaited call returned.
AnalyzeStreetTry(response, osm) ==
    IF ~Truthy(response.text)
    THEN Throw(LocalError(<<"No", "response", "from", "Gemini">>))
    ELSE LET parsed == JSONParse(response.text) IN
         IF parsed.kind = "throw" THEN parsed
         ELSE IF parsed.value.t \in {"null", "undef"}
              THEN Throw(LocalError(<<"Cannot", "read", "properties", "of", "null">>))
              ELSE Return(MergeStreet(parsed.value, osm))

\* const isRateLimit = ... in analyzeStreetConditions' catch block
StreetIsRateLimit(err) == IsRateLimitError(err)

\* the fallback returned inside if (isRateLimit)
DegradedStreet(osm) ==
    Obj([streetName |-> OrElse(OsmName(osm), Str("Service Busy (High Traffic)")),
         isTruckSuitable |-> Bool(TRUE),
         restrictionReason |-> Str("AI Analysis unavailable. Check local signs."),
         streetWidth |-> OsmWidthLabel(osm, Str("Unknown")),
         lanes |-> OsmLanes(osm),
         congestionScore |-> Num(5),
         congestionCurve |-> Arr(DegradedCurve),
         rushHourTimes |-> Arr(<<"Unknown">>),
         description |-> Str("The AI analysis service is currently experiencing high demand."),
         alternativeRoutes |-> Arr(<<>>),
         lastUpdated |-> LocaleTime])

\* the fallback returned at the end of the catch block
FailedStreet(osm) ==
    Obj([streetName |-> OrElse(OsmName(osm), Str("Analysis Failed")),
         isTruckSuitable |-> Bool(FALSE),
         congestionScore |-> Num(0),
         congestionCurve |-> Arr(FailedCurve),
         rushHourTimes |-> Arr(<<>>),
         description |-> Str("Could not retrieve data from AI service. Please check API key configuration."),
         alternativeRoutes |-> Arr(<<>>),
         lastUpdated |-> LocaleTime])

AnalyzeStreetCatchRethrow(err, osm) == Throw(err)
AnalyzeStreetCatchSwapped(err, osm) ==
    IF err.t = "error" /\ StreetIsRateLimit(err)
    THEN Return(FailedStreet(osm))
    ELSE Return(DegradedStreet(osm))
\* analyzeStreetConditions' catch block.  Reading error.status of a thrown
\* undefined raises a TypeError, which leaves the function.
AnalyzeStreetCatch(err, osm) ==
    IF err.t # "error"
    THEN Throw(LocalError(<<"Cannot", "read", "properties", "of", "undefined">>))
    ELSE IF StreetIsRateLimit(err)
         THEN Return(DegradedStreet(osm))
         ELSE Return(FailedStreet(osm))

\* analyzeStreetConditions from the point where retryGeminiCall has ended with `ended`
AnalyzeStreetConditions(ended, osm) ==
    LET tried == IF ended.kind = "return" THEN AnalyzeStreetTry(ended.value, osm) ELSE ended IN
    IF tried.kind = "return" THEN tried ELSE AnalyzeStreetCatch(tried.value, osm)

(***************************************************************************)
(* The declared shapes: the interfaces of types.ts and the response        *)
(* schemas handed to the generator                                         *)
(***************************************************************************)
IsType(x, type) == x.t = type
\* field?: type
IsOptional(x, type) == x.t \in {"undef", type}
\* a schema property with nullable: true, or one left out of `required`
IsNullable(x, type) == x.t \in {"undef", "null", type}
IsIntegerArray(x) == x.t = "arr" /\ \A i \in 1..Len(x.v) : x.v[i] \in Int

\* interface StreetAnalysis
IsStreetAnalysis(x) ==
    /\ x.t = "obj"
    /\ IsType(Get(x, "streetName"), "str")
    /\ IsType(Get(x, "isTruckSuitable"), "bool")
    /\ IsNullable(Get(x, "restrictionReason"), "str")
    /\ IsNullable(Get(x, "maxWeight"), "str")
    /\ IsNullable(Get(x, "streetWidth"), "str")
    /\ IsOptional(Get(x, "lanes"), "str")
    /\ IsType(Get(x, "congestionScore"), "num")
    /\ IsIntegerArray(Get(x, "congestionCurve"))
    /\ IsType(Get(x, "rushHourTimes"), "arr")
    /\ IsType(Get(x, "description"), "str")
    /\ IsType(Get(x, "alternativeRoutes"), "arr")
    /\ IsType(Get(x, "lastUpdated"), "str")

\* interface RouteAnalysis
IsRouteAnalysis(x) ==
    /\ x.t = "obj"
    /\ IsType(Get(x, "suitabilityScore"), "num")
    /\ IsType(Get(x, "isRouteSuitable"), "bool")
    /\ IsType(Get(x, "majorWarnings"), "arr")
    /\ IsType(Get(x, "trafficPrediction"), "str")
    /\ IsType(Get(x, "problematicStreets"), "arr")
    /\ IsType(Get(x, "estimatedDurationAdjustment"), "str")

\* interface LiveTrafficData
IsLiveTrafficData(x) ==
    /\ x.t = "obj"
    /\ IsType(Get(x, "summary"), "str")
    /\ IsType(Get(x, "lastUpdated"), "str")
    /\ Get(x, "sources").t = "arr"
    /\ \A i \in 1..Len(Get(x, "sources").v) :
          /\ IsType(Get(Get(x, "sources").v[i], "title"), "str")
          /\ IsType(Get(Get(x, "sources").v[i], "uri"), "str")

\* const analysisSchema: the property types and the required list
ConformsToAnalysisSchema(x) ==
    /\ x.t = "obj"
    /\ DOMAIN x.v \subseteq {"streetName", "isTruckSuitable", "restrictionReason", "maxWeight",
                             "streetWidth", "congestionScore", "congestionCurve",
                             "rushHourTimes", "description", "alternativeRoutes"}
    /\ IsType(Get(x, "streetName"), "str")
    /\ IsType(Get(x, "isTruckSuitable"), "bool")
    /\ IsNullable(Get(x, "restrictionReason"), "str")
    /\ IsNullable(Get(x, "maxWeight"), "str")
    /\ IsNullable(Get(x, "streetWidth"), "str")
    /\ IsType(Get(x, "congestionScore"), "num")
    /\ IsIntegerArray(Get(x, "congestionCurve"))
    /\ IsType(Get(x, "rushHourTimes"), "arr")
    /\ IsType(Get(x, "description"), "str")
    /\ IsOptional(Get(x, "alternativeRoutes"), "arr")

\* const routeAnalysisSchema: the property types and the required list
ConformsToRouteSchema(x) ==
    /\ x.t = "obj"
    /\ DOMAIN x.v \subseteq {"suitabilityScore", "isRouteSuitable", "majorWarnings",
                             "trafficPrediction", "problematicStreets",
                             "estimatedDurationAdjustment"}
    /\ IsType(Get(x, "suitabilityScore"), "num")
    /\ IsType(Get(x, "isRouteSuitable"), "bool")
    /\ IsType(Get(x, "majorWarnings"), "arr")
    /\ IsType(Get(x, "trafficPrediction"), "str")
    /\ IsType(Get(x, "problematicStreets"), "arr")
    /\ IsOptional(Get(x, "estimatedDurationAdjustment"), "str")

(***************************************************************************)
(* What the generator answers to analyzeStreetConditions                   *)
(***************************************************************************)
GoodCurve == <<1, 1, 2, 6, 9, 7, 5, 8, 9, 6, 3, 2>>

BaseStreetData ==
    [streetName |-> Str("Hohe Strasse"),
     isTruckSuitable |-> Bool(TRUE),
     congestionScore |-> Num(6),
     congestionCurve |-> Arr(GoodCurve),
     rushHourTimes |-> Arr(<<"07:30 - 09:00">>),
     description |-> Str("Busy shopping street."),
     alternativeRoutes |-> Arr(<<"Nord-Sued-Fahrt">>)]

\* fields with the keys of `without` removed
Without(fields, without) == [k \in DOMAIN fields \ without |-> fields[k]]

SuitabilityVariants ==
    { <<>>,
      [isTruckSuitable |-> Bool(FALSE), restrictionReason |-> Str("Width < 3m")],
      [isTruckSuitable |-> Bool(FALSE)],
      [isTruckSuitable |-> Bool(FALSE), restrictionReason |-> Null] }

WidthVariants ==
    { <<>>,
      [streetWidth |-> Str("approx. 4m")],
      [streetWidth |-> Str("")],
      [streetWidth |-> Null] }

\* Curves of a length other than 12, curves with an entry outside 0..10.
CurveVariants ==
    { [congestionCurve |-> Arr(SubSeq(GoodCurve, 1, CurveLength - 1))],
      [congestionCurve |-> Arr(GoodCurve \o <<4>>)],
      [congestionCurve |-> Arr(<<>>)],
      [congestionCurve |-> Arr([GoodCurve EXCEPT ![5] = 11])],
      [congestionCurve |-> Arr([GoodCurve EXCEPT ![1] = -1])],
      [maxWeight |-> Str("3.5t")] }

\* Objects that satisfy analysisSchema's types and required list.
SchemaStreetObjects ==
    { Obj(sv @@ w @@ BaseStreetData) : sv \in SuitabilityVariants, w \in WidthVariants }
    \cup { Obj(c @@ w @@ BaseStreetData) : c \in CurveVariants, w \in WidthVariants }
    \cup { Obj(Without(BaseStreetData, {"alternativeRoutes"})),
           Obj(Without([isTruckSuitable |-> Bool(FALSE)] @@ BaseStreetData, {"alternativeRoutes"})) }

\* JSON values that violate analysisSchema: a required field missing, a field of
\* the wrong type, a property the schema does not know, no object at all.
MalformedStreetValues ==
    { Obj(Without(BaseStreetData, {"streetName"})),
      Obj(Without(BaseStreetData, {"congestionCurve"})),
      Obj(Without(BaseStreetData, {"isTruckSuitable", "description"})),
      Obj([isTruckSuitable |-> Str("yes")] @@ BaseStreetData),
      Obj([congestionCurve |-> Null] @@ BaseStreetData),
      Obj([congestionCurve |-> Num(7)] @@ BaseStreetData),
      Obj([lanes |-> Str("3")] @@ BaseStreetData),
      Obj(<<>>),
      Null,
      Num(5) }

StreetResponses ==
    { TextResponse(JsonText(value)) : value \in SchemaStreetObjects \cup MalformedStreetValues }
    \cup { TextResponse(InvalidText(message)) : message \in SyntaxErrorMessages }
    \cup { TextResponse(Undef), TextResponse(Str("")) }

(***************************************************************************)
(* analyzeRouteLogistics                                                   *)
(***************************************************************************)
BaseRouteData ==
    [suitabilityScore |-> Num(80),
     isRouteSuitable |-> Bool(TRUE),
     majorWarnings |-> Arr(<<>>),
     trafficPrediction |-> Str("Moderate"),
     problematicStreets |-> Arr(<<>>),
     estimatedDurationAdjustment |-> Str("+15 mins")]

\* Objects that satisfy routeAnalysisSchema's types and required list.
SchemaRouteObjects ==
    { Obj(BaseRouteData),
      Obj([suitabilityScore |-> Num(20), isRouteSuitable |-> Bool(FALSE),
           majorWarnings |-> Arr(<<"Ban on LKW">>),
           problematicStreets |-> Arr(<<"Hohe Strasse">>)] @@ BaseRouteData),
      Obj(Without(BaseRouteData, {"estimatedDurationAdjustment"})) }

\* JSON values that violate routeAnalysisSchema.
MalformedRouteValues ==
    { Obj(Without(BaseRouteData, {"majorWarnings"})),
      Obj([suitabilityScore |-> Str("high")] @@ BaseRouteData),
      Obj(<<>>),
      Null,
      Num(5) }

RouteResponses ==
    { TextResponse(JsonText(value)) : value \in SchemaRouteObjects \cup MalformedRouteValues }
    \cup { TextResponse(InvalidText(message)) : message \in SyntaxErrorMessages }
    \cup { TextResponse(Undef), TextResponse(Str("")) }

\* The body of analyzeRouteLogistics' try block after the awaited call returned.
AnalyzeRouteTry(response) ==
    IF ~Truthy(response.text)
    THEN Throw(LocalError(<<"No", "response">>))
    ELSE JSONParse(response.text)

\* const isRateLimit = ... in analyzeRouteLogistics' catch block
RouteIsRateLimit(err) == IsRateLimitError(err)

\* the fallback returned inside if (isRateLimit)
DegradedRoute ==
    Obj([suitabilityScore |-> Num(50),
         isRouteSuitable |-> Bool(TRUE),
         majorWarnings |-> Arr(<<"AI Service Busy - Verification Incomplete">>),
         trafficPrediction |-> Str("Unknown (Service Busy)"),
         problematicStreets |-> Arr(<<>>),
         estimatedDurationAdjustment |-> Str("Unknown")])

\* the fallback returned at the end of the catch block
FailedRoute ==
    Obj([suitabilityScore |-> Num(0),
         isRouteSuitable |-> Bool(FALSE),
         majorWarnings |-> Arr(<<"AI Analysis Service Unavailable">>),
         trafficPrediction |-> Str("Unknown"),
         problematicStreets |-> Arr(<<>>),
         estimatedDurationAdjustment |-> Str("Unknown")])

AnalyzeRouteCatchSwapped(err) ==
    IF err.t = "error" /\ RouteIsRateLimit(err)
    THEN Return(FailedRoute)
    ELSE Return(DegradedRoute)
\* analyzeRouteLogistics' catch block
AnalyzeRouteCatch(err) ==
    IF err.t # "error"
    THEN Throw(LocalError(<<"Cannot", "read", "properties", "of", "undefined">>))
    ELSE IF RouteIsRateLimit(err)
         THEN Return(DegradedRoute)
         ELSE Return(FailedRoute)

\* analyzeRouteLogistics from the point where retryGeminiCall has ended with `ended`
AnalyzeRouteLogistics(ended) ==
    LET tried == IF ended.kind = "return" THEN AnalyzeRouteTry(ended.value) ELSE ended IN
    IF tried.kind = "return" THEN tried ELSE AnalyzeRouteCatch(tried.value)

(***************************************************************************)
(* getLiveTrafficUpdates                                                   *)
(***************************************************************************)
\* response.candidates?.[0]?.groundingMetadata?.groundingChunks
WebChunk == Obj([web |-> Obj([title |-> Str("WDR Verkehr"), uri |-> Str("https://wdr.de/verkehr")])])
UntitledChunk == Obj([web |-> Obj([uri |-> Str("https://koeln.de")])])
OtherChunk == Obj([retrievedContext |-> Obj(<<>>)])

LiveResponses ==
    { [t |-> "response", text |-> text, chunks |-> chunks] :
        text \in {Str("A3 closed at Heumar."), Str(""), Undef},
        chunks \in {Undef, Arr(<<>>), Arr(<<WebChunk, OtherChunk, UntitledChunk>>),
                    Arr(<<WebChunk, Null>>), Num(1)} }

\* sources.push({ title: chunk.web.title || "Source", uri: chunk.web.uri })
SourceOf(chunk) ==
    Obj([title |-> OrElse(Get(Get(chunk, "web"), "title"), Str("Source")),
         uri |-> Get(Get(chunk, "web"), "uri")])

\* chunks.forEach(chunk => { if (chunk.web) sources.push(...) })
SourcesOf(chunks) ==
    LET withWeb == SelectSeq(chunks, LAMBDA c : Truthy(Get(c, "web"))) IN
    [i \in 1..Len(withWeb) |-> SourceOf(withWeb[i])]

\* The body of getLiveTrafficUpdates' try block after the awaited call returned.
LiveTry(response) ==
    LET text == OrElse(response.text, Str("No live data available."))
        chunks == response.chunks
    IN  IF ~Truthy(chunks)
        THEN Return(Obj([summary |-> text, lastUpdated |-> LocaleTime, sources |-> Arr(<<>>)]))
        ELSE IF chunks.t # "arr"
        THEN Throw(LocalError(<<"chunks.forEach", "is", "not", "a", "function">>))
        ELSE IF \E i \in 1..Len(chunks.v) : chunks.v[i].t \in {"null", "undef"}
        THEN Throw(LocalError(<<"Cannot", "read", "properties", "of", "null">>))
        ELSE Return(Obj([summary |-> text, lastUpdated |-> LocaleTime,
                         sources |-> Arr(SourcesOf(chunks.v))]))

\* const isRateLimit = ... in getLiveTrafficUpdates' catch block
LiveIsRateLimit(err) == IsRateLimitError(err)

\* the fallback returned inside if (isRateLimit)
DegradedLive ==
    Obj([summary |-> Str("Live traffic updates temporarily unavailable due to high service demand. Please drive carefully."),
         lastUpdated |-> LocaleTime,
         sources |-> Arr(<<>>)])

\* the fallback returned at the end of the catch block
FailedLive ==
    Obj([summary |-> Str("Unable to fetch live traffic data at this time."),
         lastUpdated |-> LocaleTime,
         sources |-> Arr(<<>>)])

LiveCatchAlwaysFailed(err) == Return(FailedLive)
\* getLiveTrafficUpdates' catch block
LiveCatch(err) ==
    IF err.t # "error"
    THEN Throw(LocalError(<<"Cannot", "read", "properties", "of", "undefined">>))
    ELSE IF LiveIsRateLimit(err)
         THEN Return(DegradedLive)
         ELSE Return(FailedLive)

\* getLiveTrafficUpdates from the point where retryGeminiCall has ended with `ended`
GetLiveTrafficUpdates(ended) ==
    LET tried == IF ended.kind = "return" THEN LiveTry(ended.value) ELSE ended IN
    IF tried.kind = "return" THEN tried ELSE LiveCatch(tried.value)

(***************************************************************************)
(* getWeatherLogistics.  The text of a response is held as its lines, each  *)
(* a label before the colon and the words after it, blanks included.        *)
(***************************************************************************)
WeatherLine(label, words) == [label |-> label, words |-> words]
WeatherReport(lines) == [t |-> "str", v |-> "<report>", lines |-> lines]
LinesOf(text) == IF text.v = "" THEN <<>> ELSE text.lines

\* label.toUpperCase() and word.toUpperCase() for the labels and words of the model
UpperCase(word) ==
    CASE word \in {"temp", "Temp"} -> "TEMP"
      [] word \in {"yes", "Yes"} -> "YES"
      [] word = "no" -> "NO"
      [] OTHER -> word

\* words.trim(): blanks at both ends are dropped
RECURSIVE Trim(_)
Trim(words) ==
    IF words = <<>> THEN words
    ELSE IF Head(words) = " " THEN Trim(Tail(words))
    ELSE IF words[Len(words)] = " " THEN Trim(SubSeq(words, 1, Len(words) - 1))
    ELSE words

\* text.match(/KEY:\s*(.*)/i): the words after the first label that is KEY in
\* any case (\s* takes the blanks in front), Null when no line has that label
MatchLine(text, key) ==
    LET hits == {i \in 1..Len(LinesOf(text)) : UpperCase(LinesOf(text)[i].label) = key} IN
    IF hits = {} THEN Null
    ELSE LET first == CHOOSE i \in hits : \A j \in hits : i <= j
             words == LinesOf(text)[first].words
             RECURSIVE SkipBlanks(_)
             SkipBlanks(ws) == IF ws # <<>> /\ Head(ws) = " " THEN SkipBlanks(Tail(ws)) ELSE ws
         IN [t |-> "match", group |-> SkipBlanks(words)]

\* match ? match[1].trim() : fallback
GroupOr(match, fallback) ==
    IF match.t = "match" THEN [t |-> "str", v |-> "<words>", words |-> Trim(match.group)]
    ELSE Str(fallback)

\* severeMatch ? severeMatch[1].trim().toUpperCase().includes("YES") : false
SevereOf(match) ==
    IF match.t = "match"
    THEN Bool(\E i \in 1..Len(match.group) : UpperCase(match.group[i]) = "YES")
    ELSE Bool(FALSE)

\* getWeatherLogistics' try block after retryGeminiCall returned `response`
WeatherTry(response) ==
    LET text == OrElse(response.text, Str("")) IN
    IF text.t # "str"
    THEN Throw(LocalError(<<"text.match", "is", "not", "a", "function">>))
    ELSE Return(Obj([temp |-> GroupOr(MatchLine(text, "TEMP"), "N/A"),
                     condition |-> GroupOr(MatchLine(text, "COND"), "Unknown"),
                     impact |-> GroupOr(MatchLine(text, "IMPACT"), "Weather data unavailable."),
                     isSevere |-> SevereOf(MatchLine(text, "SEVERE"))]))

\* the object returned at the end of the catch block
UnavailableWeather ==
    Obj([temp |-> Str("--"), condition |-> Str("Unavailable"),
         impact |-> Str("Could not fetch weather data."), isSevere |-> Bool(FALSE)])

WeatherCatchRethrow(err) == Throw(err)
\* getWeatherLogistics' catch block: both branches of its if only log
WeatherCatch(err) ==
    IF err.t # "error"
    THEN Throw(LocalError(<<"Cannot", "read", "properties", "of", "undefined">>))
    ELSE Return(UnavailableWeather)

\* getWeatherLogistics from the point where retryGeminiCall has ended with `ended`
GetWeatherLogistics(ended) ==
    LET tried == IF ended.kind = "return" THEN WeatherTry(ended.value) ELSE ended IN
    IF tried.kind = "return" THEN tried ELSE WeatherCatch(tried.value)

\* What the generator answers to getWeatherLogistics.
WeatherResponses ==
    { TextResponse(text) :
        text \in {WeatherReport(<<WeatherLine("TEMP", <<" ", "15", "C">>),
                                  WeatherLine("COND", <<" ", "Rainy", " ">>),
                                  WeatherLine("IMPACT", <<" ", "Wet", "roads.">>),
                                  WeatherLine("SEVERE", <<" ", "NO">>)>>),
                  WeatherReport(<<WeatherLine("Temp", <<"3", "C">>),
                                  WeatherLine("SEVERE", <<" ", "yes", " ">>)>>),
                  WeatherReport(<<WeatherLine("NOTE", <<"Storm", "warning">>),
                                  WeatherLine("SEVERE", <<>>)>>),
                  Str(""), Undef, Num(15)} }

(***************************************************************************)
(* The map-service functions: calculateRoute                               *)
(***************************************************************************)
\* How fetch(url) and response.json() end: fetch rejects, or it resolves with a
\* response of which the code reads ok, statusText and the parsed body (json is
\* Return(data) or Throw(a SyntaxError)).
FetchRejects == [kind |-> "reject"]
HttpResponse(ok, statusText, json) ==
    [kind |-> "response", ok |-> ok, statusText |-> statusText, json |-> json]
FetchFailed == LocalError(<<"Failed", "to", "fetch">>)
JsonSyntaxError == LocalError(<<"Unexpected", "token", "<", "in", "JSON">>)
PropertyOfNull == LocalError(<<"Cannot", "read", "properties", "of", "null">>)

Point(lat, lng) == [lat |-> lat, lng |-> lng]

\* throw new Error(...) of calculateRoute
RouteInvalidInput ==
    LocalError(<<"At", "least", "two", "points", "are", "required", "for", "a", "route.">>)
RoutingServiceError(statusText) == LocalError(<<"Routing", "service", "error:", statusText>>)
NoRouteFound == LocalError(<<"No", "route", "found.">>)

InvalidWaypointsUpToTwo(points) == Len(points) <= 2
\* if (points.length < 2)
InvalidWaypoints(points) == Len(points) < 2

\* points.map((p) => `${p.lng},${p.lat}`).join(";"): one "lng,lat" pair per
\* waypoint, in the order of the list
CoordString(points) == [i \in 1..Len(points) |-> <<points[i].lng, points[i].lat>>]

KeepPair(coord) == coord
\* (coord) => [coord[1], coord[0]]
SwapPair(coord) == <<coord[2], coord[1]>>

\* geometry.coordinates.map(...)
LeafletCoordinates(geometry) ==
    [i \in 1..Len(geometry.coordinates) |-> SwapPair(geometry.coordinates[i])]

\* The steps of all legs, in the order the two nested forEach visit them.
RECURSIVE StepsOf(_)
StepsOf(legs) == IF legs = <<>> THEN <<>> ELSE legs[1].steps \o StepsOf(Tail(legs))

AddNameAlways(names, name) == Append(names, name)
\* streetNames.add(name): a Set keeps the order of first insertion
AddName(names, name) ==
    IF \E i \in 1..Len(names) : names[i] = name THEN names ELSE Append(names, name)

\* if (step.name && step.name.length > 0) streetNames.add(step.name), over steps
RECURSIVE CollectNames(_, _)
CollectNames(names, steps) ==
    IF steps = <<>> THEN names
    ELSE LET name == steps[1].name IN
         CollectNames(IF Truthy(name) /\ Len(name.v) > 0 THEN AddName(names, name.v) ELSE names,
                      Tail(steps))

\* Array.from(streetNames) after the loops
StreetNamesOf(route) == CollectNames(<<>>, StepsOf(route.legs))

\* the object calculateRoute returns
RoutePlan(route) ==
    [geometry |-> route.geometry,
     coordinates |-> LeafletCoordinates(route.geometry),
     streetNames |-> StreetNamesOf(route),
     duration |-> route.duration,
     distance |-> route.distance]

\* calculateRoute's try block once fetch has settled with `answer`; the catch
\* block rethrows whatever was thrown.
CalculateRouteAfterFetch(answer) ==
    IF answer.kind = "reject" THEN Throw(FetchFailed)
    ELSE IF ~answer.ok THEN Throw(RoutingServiceError(answer.statusText))
    ELSE IF answer.json.kind = "throw" THEN answer.json
    ELSE LET data == answer.json.value
             routes == Get(data, "routes")
         IN IF data.t = "null" THEN Throw(PropertyOfNull)
            ELSE IF Get(data, "code") # Str("Ok") \/ ~Truthy(routes) \/ Len(routes.v) = 0
                 THEN Throw(NoRouteFound)
                 ELSE Return(RoutePlan(routes.v[1]))

\* The waypoint lists calculateRoute is called with.
MaxRouteLen == 3
Places == {Point(50, 6), Point(51, 7)}
SeqsUpTo(S, n) == UNION {[1..k -> S] : k \in 0..n}
WaypointLists == SeqsUpTo(Places, MaxRouteLen)

\* The routes of an answer of the routing service (requested with
\* geometries=geojson and steps=true): a polyline of [lng, lat] pairs and legs
\* of steps, a step's name being a string, possibly empty, or missing.
MaxPolyline == 2
MaxSteps == 2
Polylines == SeqsUpTo({<<6, 50>>, <<7, 51>>}, MaxPolyline)
StepNameValues == {Str("Aachener Strasse"), Str("Hohe Strasse"), Str(""), Undef}
StepLists == {[i \in 1..Len(names) |-> [name |-> names[i]]] : names \in SeqsUpTo(StepNameValues, MaxSteps)}
LegLists ==
    {<<[steps |-> steps]>> : steps \in StepLists}
    \cup {<<[steps |-> first], [steps |-> second]>> :
             first \in {st \in StepLists : Len(st) = 1}, second \in StepLists}
    \cup {<<>>}
OsrmRoute(polyline, legs) ==
    [geometry |-> [type |-> "LineString", coordinates |-> polyline],
     legs |-> legs, duration |-> 600, distance |-> 5000]
OsrmRoutes == {OsrmRoute(polyline, legs) : polyline \in Polylines, legs \in LegLists}
SomeRoute == OsrmRoute(<<<<6, 50>>, <<7, 51>>>>, <<[steps |-> <<[name |-> Str("Hohe Strasse")]>>]>>)

\* The bodies the routing service answers with: Ok with one route or with the
\* route and an alternative, Ok without a route, an error code, JSON null.
RoutingBodies ==
    {Obj([code |-> Str("Ok"), routes |-> Arr(<<route>>)]) : route \in OsrmRoutes}
    \cup {Obj([code |-> Str("Ok"), routes |-> Arr(<<route, SomeRoute>>)]) :
             route \in {OsrmRoute(<<>>, <<>>), SomeRoute}}
    \cup {Obj([code |-> Str("Ok"), routes |-> Arr(<<>>)]),
          Obj([code |-> Str("Ok")]),
          Obj([code |-> Str("NoRoute"), message |-> Str("Impossible route between points")]),
          Obj([code |-> Str("NoRoute"), routes |-> Arr(<<>>)]),
          Obj([code |-> Str("NoSegment"), routes |-> Arr(<<SomeRoute>>)]),
          Null}

\* How the routing request can end.  The service reports its error codes with
\* status 400; a gateway may answer with any status and a body that is not JSON.
RoutingAnswers ==
    {FetchRejects}
    \cup {HttpResponse(TRUE, "OK", Return(data)) : data \in RoutingBodies}
    \cup {HttpResponse(FALSE, "Bad Request", Return(data)) :
             data \in {Obj([code |-> Str("NoRoute"),
                            message |-> Str("Impossible route between points")]),
                       Obj([code |-> Str("InvalidQuery")])}}
    \cup {HttpResponse(TRUE, "OK", Throw(JsonSyntaxError)),
          HttpResponse(FALSE, "Bad Gateway", Throw(JsonSyntaxError))}

\* calculateRoute up to await fetch(url)
RouteRequest ==
    /\ geoFn = "calculateRoute"
    /\ geoPc = "ready"
    /\ IF InvalidWaypoints(geoArgs)
       THEN /\ geoResult' = Throw(RouteInvalidInput)
            /\ geoPc' = "done"
            /\ UNCHANGED geoRequests
       ELSE /\ geoRequests' = Append(geoRequests, [service |-> "osrm",
                                                   coordinates |-> CoordString(geoArgs)])
            /\ geoPc' = "awaiting"
            /\ UNCHANGED geoResult
    /\ UNCHANGED <<geoFn, geoArgs, geoBackend, retryVars, svcVars, appVars, animVars, weather>>

\* calculateRoute from where fetch settles to its end
RouteResponse ==
    /\ geoFn = "calculateRoute"
    /\ geoPc = "awaiting"
    /\ geoResult' = CalculateRouteAfterFetch(geoBackend)
    /\ geoPc' = "done"
    /\ UNCHANGED <<geoFn, geoArgs, geoBackend, geoRequests, retryVars, svcVars, appVars, animVars, weather>>

(***************************************************************************)
(* The map-service functions: geocodeStreet                                *)
(***************************************************************************)
\* parseFloat of the decimal strings of this model; NaN for anything else
NaN == "NaN"
ParseFloat(x) ==
    IF x = Str("50.94") THEN 5094 ELSE IF x = Str("6.96") THEN 696 ELSE NaN

\* geocodeStreet's try block once fetch has settled with `answer`
GeocodeTry(answer) ==
    IF answer.kind = "reject" THEN Throw(FetchFailed)
    ELSE IF ~answer.ok THEN Throw(LocalError(<<"Geocoding", "failed">>))
    ELSE IF answer.json.kind = "throw" THEN answer.json
    ELSE LET data == answer.json.value IN
         IF Truthy(data) /\ data.t = "arr" /\ Len(data.v) > 0
         THEN IF data.v[1].t \in {"null", "undef"}
              THEN Throw(PropertyOfNull)
              ELSE Return(Point(ParseFloat(Get(data.v[1], "lat")),
                                ParseFloat(Get(data.v[1], "lon"))))
         ELSE Return(Null)

\* geocodeStreet from where fetch settles: the catch block returns null
GeocodeAfterFetch(answer) ==
    LET tried == GeocodeTry(answer) IN
    IF tried.kind = "return" THEN tried ELSE Return(Null)

\* What the search service answers: a list of hits (limit=1), possibly empty.
GeocodeHit == Obj([lat |-> Str("50.94"), lon |-> Str("6.96"), display_name |-> Str("Hohe Strasse")])
GeocodeBodies ==
    {Arr(<<>>), Arr(<<GeocodeHit>>), Arr(<<Null>>), Arr(<<Obj([lat |-> Str("50.94")])>>),
     Null, Obj([error |-> Str("Unable to geocode")])}
GeocodeAnswers ==
    {FetchRejects}
    \cup {HttpResponse(TRUE, "OK", Return(data)) : data \in GeocodeBodies}
    \cup {HttpResponse(FALSE, "Too Many Requests", Return(Arr(<<>>))),
          HttpResponse(TRUE, "OK", Throw(JsonSyntaxError))}
GeocodeQueries == {"Hohe Strasse", "Atlantis", ""}

\* geocodeStreet up to await fetch(...): the query is sent as it is
GeocodeRequest ==
    /\ geoFn = "geocodeStreet"
    /\ geoPc = "ready"
    /\ geoRequests' = Append(geoRequests, [service |-> "nominatim", q |-> geoArgs])
    /\ geoPc' = "awaiting"
    /\ UNCHANGED <<geoFn, geoArgs, geoBackend, geoResult, retryVars, svcVars, appVars, animVars, weather>>

\* geocodeStreet from where fetch settles to its end
GeocodeResponse ==
    /\ geoFn = "geocodeStreet"
    /\ geoPc = "awaiting"
    /\ geoResult' = GeocodeAfterFetch(geoBackend)
    /\ geoPc' = "done"
    /\ UNCHANGED <<geoFn, geoArgs, geoBackend, geoRequests, retryVars, svcVars, appVars, animVars, weather>>

(***************************************************************************)
(* The map-service functions: getNearestStreetDetails                      *)
(***************************************************************************)
\* the object getNearestStreetDetails returns for the tags of the first element
\* (maxspeed and surface are read by nobody and left out, as in OsmContexts)
StreetDetailsOf(tags) ==
    [t |-> "obj",
     name |-> OrElse(Get(tags, "name"), Str("Unnamed Road")),
     type |-> OrElse(Get(tags, "highway"), Str("unknown")),
     width |-> OrElse(OrElse(Get(tags, "width"), Get(tags, "est_width")), Undef),
     lanes |-> OrElse(Get(tags, "lanes"), Undef)]

\* getNearestStreetDetails' try block once fetch has settled with `answer`
NearestTry(answer) ==
    IF answer.kind = "reject" THEN Throw(FetchFailed)
    ELSE IF ~answer.ok THEN Return(Null)
    ELSE IF answer.json.kind = "throw" THEN answer.json
    ELSE LET data == answer.json.value
             elements == Get(data, "elements")
         IN IF data.t \in {"null", "undef"} THEN Throw(PropertyOfNull)
            ELSE IF Truthy(elements) /\ elements.t = "arr" /\ Len(elements.v) > 0
            THEN IF elements.v[1].t \in {"null", "undef"}
                    \/ Get(elements.v[1], "tags").t \in {"null", "undef"}
                 THEN Throw(PropertyOfNull)
                 ELSE Return(StreetDetailsOf(Get(elements.v[1], "tags")))
            ELSE Return(Null)

\* getNearestStreetDetails from where fetch settles: the catch block returns null
NearestAfterFetch(answer) ==
    LET tried == NearestTry(answer) IN
    IF tried.kind = "return" THEN tried ELSE Return(Null)

\* What the Overpass service answers to `way(around:20,lat,lng)["highway"]`.
WayElement(tags) == Obj([type |-> Str("way"), id |-> Num(1), tags |-> tags])
NearestTags ==
    {Obj([highway |-> Str("pedestrian"), name |-> Str("Hohe Strasse"),
          width |-> Str("2.8"), lanes |-> Str("1")]),
     Obj([highway |-> Str("primary"), name |-> Str("Aachener Strasse"), lanes |-> Str("2")]),
     Obj([highway |-> Str("service"), est_width |-> Str("6")]),
     Obj([highway |-> Str("residential"), name |-> Str("")])}
NearestBodies ==
    {Obj([elements |-> Arr(<<WayElement(tags)>>)]) : tags \in NearestTags}
    \cup {Obj([elements |-> Arr(<<WayElement(first), WayElement(second)>>)]) :
             first \in NearestTags, second \in NearestTags}
    \cup {Obj([elements |-> Arr(<<>>)]),
          Obj([remark |-> Str("runtime error: Query timed out")]),
          Obj([elements |-> Arr(<<Obj([type |-> Str("way"), id |-> Num(1)])>>)]),
          Null}
NearestAnswers ==
    {FetchRejects}
    \cup {HttpResponse(TRUE, "OK", Return(data)) : data \in NearestBodies}
    \cup {HttpResponse(FALSE, "Too Many Requests", Throw(JsonSyntaxError)),
          HttpResponse(FALSE, "Gateway Timeout", Throw(JsonSyntaxError)),
          HttpResponse(TRUE, "OK", Throw(JsonSyntaxError))}

\* getNearestStreetDetails up to await fetch(...)
NearestRequest ==
    /\ geoFn = "getNearestStreetDetails"
    /\ geoPc = "ready"
    /\ geoRequests' = Append(geoRequests, [service |-> "overpass", around |-> <<20, geoArgs>>])
    /\ geoPc' = "awaiting"
    /\ UNCHANGED <<geoFn, geoArgs, geoBackend, geoResult, retryVars, svcVars, appVars, animVars, weather>>

\* getNearestStreetDetails from where fetch settles to its end
NearestResponse ==
    /\ geoFn = "getNearestStreetDetails"
    /\ geoPc = "awaiting"
    /\ geoResult' = NearestAfterFetch(geoBackend)
    /\ geoPc' = "done"
    /\ UNCHANGED <<geoFn, geoArgs, geoBackend, geoRequests, retryVars, svcVars, appVars, animVars, weather>>

(***************************************************************************)
(* The map-service functions: getStreetGeometry                            *)
(***************************************************************************)
\* streetName.split(',')[0].trim(): a street name is held as its comma-separated
\* parts, of which the first is kept
CleanName(parts) == parts[1]

\* element.geometry.map(pt => ({lat: pt.lat, lng: pt.lon})): reading a property
\* of a null point throws, as does .map on a geometry that is no array
PathOf(geometry) ==
    IF geometry.t # "arr" THEN Throw(PropertyOfNull)
    ELSE IF \E i \in 1..Len(geometry.v) : geometry.v[i].t \in {"null", "undef"}
    THEN Throw(PropertyOfNull)
    ELSE Return([i \in 1..Len(geometry.v) |->
                    [lat |-> Get(geometry.v[i], "lat"), lng |-> Get(geometry.v[i], "lon")]])

\* data.elements.forEach(...): the segments pushed for the elements from position i
\* on, after those in `segments`; a throw inside the callback ends the loop
RECURSIVE SegmentsFrom(_, _, _)
SegmentsFrom(elements, i, segments) ==
    IF i > Len(elements) THEN Return(segments)
    ELSE LET element == elements[i] IN
         IF element.t \in {"null", "undef"} THEN Throw(PropertyOfNull)
         ELSE IF Get(element, "type") = Str("way") /\ Truthy(Get(element, "geometry"))
         THEN LET path == PathOf(Get(element, "geometry")) IN
              IF path.kind = "throw" THEN path
              ELSE SegmentsFrom(elements, i + 1, Append(segments, path.value))
         ELSE SegmentsFrom(elements, i + 1, segments)

\* getStreetGeometry's try block once fetch has settled with `answer`
GeometryTry(answer) ==
    IF answer.kind = "reject" THEN Throw(FetchFailed)
    ELSE IF ~answer.ok THEN Return(<<>>)
    ELSE IF answer.json.kind = "throw" THEN answer.json
    ELSE LET data == answer.json.value
             elements == Get(data, "elements")
         IN IF data.t \in {"null", "undef"} THEN Throw(PropertyOfNull)
            ELSE IF ~Truthy(elements) THEN Return(<<>>)
            ELSE IF elements.t # "arr" THEN Throw(PropertyOfNull)
            ELSE SegmentsFrom(elements.v, 1, <<>>)

\* the same with the catch block rethrowing
GeometryAfterFetchRethrow(answer) == GeometryTry(answer)

\* getStreetGeometry from where fetch settles: the catch block returns []
GeometryAfterFetch(answer) ==
    LET tried == GeometryTry(answer) IN
    IF tried.kind = "return" THEN tried ELSE Return(<<>>)

\* What the Overpass service answers to `way["name"=...](around:1000,...); out geom`.
GeoPoint(lat, lon) == Obj([lat |-> Num(lat), lon |-> Num(lon)])
WayGeometries ==
    {Arr(<<GeoPoint(50, 6), GeoPoint(51, 7)>>), Arr(<<GeoPoint(51, 7)>>),
     Arr(<<GeoPoint(50, 6), Null>>), Str("LINESTRING"), Undef}
GeometryElements ==
    {Obj([type |-> Str("way"), geometry |-> g]) : g \in WayGeometries}
    \cup {Obj([type |-> Str("node"), lat |-> Num(50), lon |-> Num(6)]),
          Obj([type |-> Str("relation"), geometry |-> Arr(<<GeoPoint(50, 6)>>)]),
          Null}
MaxElements == 2
GeometryBodies ==
    {Obj([elements |-> Arr(elements)]) : elements \in SeqsUpTo(GeometryElements, MaxElements)}
    \cup {Obj([remark |-> Str("runtime error: Query timed out")]),
          Obj([elements |-> Obj([way |-> Num(1)])]),
          Null}
GeometryAnswers ==
    {FetchRejects}
    \cup {HttpResponse(TRUE, "OK", Return(data)) : data \in GeometryBodies}
    \cup {HttpResponse(FALSE, "Too Many Requests", Throw(JsonSyntaxError)),
          HttpResponse(FALSE, "Gateway Timeout", Return(Obj([elements |-> Arr(<<>>)]))),
          HttpResponse(TRUE, "OK", Throw(JsonSyntaxError))}
GeometryArguments ==
    {[streetName |-> parts, center |-> place] :
        parts \in {<<"Hohe Strasse">>, <<"Hohe Strasse", " Altstadt-Nord">>}, place \in Places}

\* getStreetGeometry up to await fetch(...)
GeometryRequest ==
    /\ geoFn = "getStreetGeometry"
    /\ geoPc = "ready"
    /\ geoRequests' = Append(geoRequests,
                             [service |-> "overpass", name |-> CleanName(geoArgs.streetName),
                              around |-> <<1000, geoArgs.center>>])
    /\ geoPc' = "awaiting"
    /\ UNCHANGED <<geoFn, geoArgs, geoBackend, geoResult, retryVars, svcVars, appVars, animVars, weather>>

\* getStreetGeometry from where fetch settles to its end
GeometryResponse ==
    /\ geoFn = "getStreetGeometry"
    /\ geoPc = "awaiting"
    /\ geoResult' = GeometryAfterFetch(geoBackend)
    /\ geoPc' = "done"
    /\ UNCHANGED <<geoFn, geoArgs, geoBackend, geoRequests, retryVars, svcVars, appVars, animVars, weather>>

(***************************************************************************)
(* The service functions around retryGeminiCall                            *)
(***************************************************************************)
\* How retryGeminiCall ended, once pc is "returned" or "thrown".
RetryEnded == IF pc = "returned" THEN Return(retValue) ELSE Throw(retValue)

\* The function's own completion: it returns `result` (pc "done") or throws it
\* to its caller (pc "escaped").
Complete(completion) ==
    /\ pc' = IF completion.kind = "return" THEN "done" ELSE "escaped"
    /\ result' = completion.value
    /\ UNCHANGED <<caller, maxRetries, baseDelay, attempt, lastError, calls, waits,
                   retValue, vehicleType, osmData, appVars, geoVars, animVars, weather>>

StreetFinish ==
    /\ caller = "street"
    /\ pc \in {"returned", "thrown"}
    /\ Complete(AnalyzeStreetConditions(RetryEnded, osmData))

RouteFinish ==
    /\ caller = "route"
    /\ pc \in {"returned", "thrown"}
    /\ Complete(AnalyzeRouteLogistics(RetryEnded))

LiveFinish ==
    /\ caller = "live"
    /\ pc \in {"returned", "thrown"}
    /\ Complete(GetLiveTrafficUpdates(RetryEnded))

WeatherFinish ==
    /\ caller = "weather"
    /\ pc \in {"returned", "thrown"}
    /\ Complete(GetWeatherLogistics(RetryEnded))

\* The mount effect of App: getWeatherLogistics().then(data => setWeather(data))
WeatherShown ==
    /\ caller = "weather"
    /\ pc = "done"
    /\ weather = Null
    /\ weather' = result
    /\ UNCHANGED <<retryVars, svcVars, appVars, geoVars, animVars>>

\* What operation() can resolve with, by call site.
ResponsesOf(site) ==
    CASE site = "street" -> StreetResponses
      [] site = "route" -> RouteResponses
      [] site = "live" -> LiveResponses
      [] site = "weather" -> WeatherResponses
      [] OTHER -> DirectResponses

RetryCatchAny == \E shape \in ErrorShapes : RetryCatch(shape)
RetryReturnAny == \E response \in ResponsesOf(caller) : RetryReturn(response)

(***************************************************************************)
(* App.tsx: the session orchestrator.  A handler reads the state of the    *)
(* render it was created in (mode, selectedVehicle, routePoints); what it  *)
(* captured is kept with its task.  Every user action takes the next id,   *)
(* which also serves as the coordinate the action selects.                 *)
(***************************************************************************)
MaxWaypoints == 10

\* Bound: user actions that start a handler
MaxEvents == 3
\* ... of which at most MaxInFlight have a handler still running at a time.
MaxInFlight == 2

\* What the live-conditions query of a selection is about: `Traffic at
\* ${streetNameForQuery} in Cologne`, with the verified street name or
\* `coordinates ${coords.lat}, ${coords.lng}` for streetNameForQuery.
NoQuery == [street |-> "", coordinates |-> 0]
StreetNameForQueryNameOnly(osm, c) ==
    [street |-> IF OsmName(osm).t = "str" THEN OsmName(osm).v ELSE "undefined",
     coordinates |-> 0]
StreetNameForQuery(osm, c) ==
    IF Truthy(OsmName(osm))
    THEN [street |-> OsmName(osm).v, coordinates |-> 0]
    ELSE [street |-> "", coordinates |-> c]

NewTask(kind, at, m, v, pts, c) ==
    [kind |-> kind, pc |-> at, mode |-> m, vehicle |-> v, points |-> pts, coords |-> c,
     osm |-> Null, aDone |-> FALSE, lDone |-> FALSE, held |-> Null, query |-> NoQuery]

\* A handler that has run to its end: only what the claims read of it is kept.
Finished(task) ==
    [NewTask("done", "finished", "explore", "Car", <<>>, 0)
        EXCEPT !.aDone = task.aDone, !.lDone = task.lDone]

\* The vehicle classes and verified contexts a session of this model goes through.
SessionVehicles == {"Car", "LKW (Heavy > 7.5t)"}
SessionOsm == {osm \in OsmContexts : OsmName(osm) \in {Undef, Str("Hohe Strasse")}}

InFlight == Cardinality({i \in 1..Len(tasks) : tasks[i].pc # "finished"})
CanStart == Len(tasks) < MaxEvents /\ InFlight < MaxInFlight

\* How retryGeminiCall ends inside the analysis and live-conditions calls:
\* a response, a rate-limited failure after the last retry, another failure.
RateLimitedEnding == Throw(MkError(DefaultMaxRetries + 1, 429, 0, <<"Too", "Many", "Requests">>))
OtherFailureEnding == Throw(MkError(1, 500, 500, <<"Internal", "error">>))
StreetEndings ==
    {Return(TextResponse(JsonText(Obj(BaseStreetData)))), RateLimitedEnding, OtherFailureEnding}
RouteEndings ==
    {Return(TextResponse(JsonText(Obj(BaseRouteData)))), RateLimitedEnding, OtherFailureEnding}
LiveEndings ==
    {Return([t |-> "response", text |-> Str("A3 closed at Heumar."), chunks |-> Undef]),
     RateLimitedEnding, OtherFailureEnding}

\* What calculateRoute resolves or rejects with for the waypoints `pts`.
RoutingOutcomes(pts) ==
    { Return([coordinates |-> pts, streetNames |-> <<"Aachener Strasse", "Hohe Strasse">>]),
      Throw(LocalError(<<"No", "route", "found.">>)) }

\* What getStreetGeometry resolves with (it never rejects).
GeometryOutcomes(name) == IF name.t = "str" THEN { <<>>, <<[way |-> name.v]>> } ELSE {}

UserMarker(c) == [type |-> "user-selected", position |-> c, index |-> 0]
RouteMarker(c, n) == [type |-> "route-point", position |-> c, index |-> n]

\* validName && !validName.includes("Analysis Failed") && validName !== "Unnamed Road"
\* (of the names in this model only "Analysis Failed" contains that text)
HighlightableName(validName) ==
    /\ Truthy(validName)
    /\ validName.t = "str"
    /\ validName.v # "Analysis Failed"
    /\ validName.v # "Unnamed Road"

\* The value a call has been fulfilled with; undefined while it is pending.
Fulfilled(res) == IF res = Undef THEN Undef ELSE res.value

JoinSettledAny(task) == task.aDone \/ task.lDone
\* await Promise.all([...]) resumes once both promises are fulfilled
JoinSettled(task) == task.aDone /\ task.lDone

\* await Promise.all([...]) throws as soon as one promise is rejected
JoinRejected(aRes, lRes) ==
    \/ aRes # Undef /\ aRes.kind = "throw"
    \/ lRes # Undef /\ lRes.kind = "throw"

CapReachedNever(pts) == FALSE
\* if (routePoints.length >= 10)
CapReached(pts) == Len(pts) >= MaxWaypoints

\* handleLocationSelect(c) of the render with mode m, selectedVehicle v and
\* routePoints pts, up to its first await; `before` is tasks with entry id in place.
HandleLocationSelect(id, c, m, v, pts, before) ==
    IF m = "explore"
    THEN /\ error' = Null
         /\ loading' = TRUE
         /\ analysis' = Null
         /\ liveTraffic' = Null
         /\ routeAnalysis' = Null
         /\ highlightedSegments' = <<>>
         /\ markers' = <<UserMarker(c)>>
         /\ tasks' = [before EXCEPT ![id] = NewTask("select", "osm", m, v, <<>>, c)]
         /\ analysisOf' = 0
         /\ liveTrafficOf' = 0
         /\ routeAnalysisOf' = 0
         /\ UNCHANGED <<selectedVehicle, mode, isHighlightSuitable, routePoints,
                        routeCoordinates, routeStreetNames>>
    ELSE IF CapReached(pts)
    THEN /\ error' = Str("Max 10 waypoints allowed.")
         /\ tasks' = [before EXCEPT ![id] = Finished(NewTask("select", "finished", m, v, pts, c))]
         /\ UNCHANGED <<selectedVehicle, mode, analysis, highlightedSegments,
                        isHighlightSuitable, routePoints, routeCoordinates, routeAnalysis,
                        routeStreetNames, loading, liveTraffic, markers,
                        analysisOf, liveTrafficOf, routeAnalysisOf>>
    ELSE /\ error' = Null
         /\ routePoints' = Append(pts, c)
         /\ markers' = Append(markers, RouteMarker(c, Len(pts) + 1))
         /\ tasks' = [before EXCEPT ![id] = Finished(NewTask("select", "finished", m, v, pts, c))]
         /\ UNCHANGED <<selectedVehicle, mode, analysis, highlightedSegments,
                        isHighlightSuitable, routeCoordinates, routeAnalysis,
                        routeStreetNames, loading, liveTraffic,
                        analysisOf, liveTrafficOf, routeAnalysisOf>>

IssueCancelling(running, task) ==
    Append([i \in 1..Len(running) |-> Finished(running[i])], task)
\* A call of the async handleLocationSelect starts a run of the handler next to
\* the runs that are awaiting: no run is told to stop, none is replaced.
Issue(running, task) == Append(running, task)

\* A click on the map or on a hotspot: onLocationSelect of the current render.
OnLocationSelect(c) ==
    /\ LET id == Len(tasks) + 1 IN
       HandleLocationSelect(id, c, mode, selectedVehicle, routePoints,
                            Issue(tasks, NewTask("select", "start", mode, selectedVehicle, routePoints, c)))
    /\ UNCHANGED <<weather, animVars, geoVars, retryVars, svcVars>>

\* In a session every request points at a place of its own.
MapClick == CanStart /\ OnLocationSelect(Len(tasks) + 1)

\* getNearestStreetDetails resolves (null when nothing is near or the lookup failed);
\* the two calls of Promise.all are started.
OsmResolves(id, details) ==
    /\ tasks[id].pc = "osm"
    /\ tasks' = [tasks EXCEPT ![id].pc = "fanout", ![id].osm = details,
                              ![id].query = StreetNameForQuery(details, tasks[id].coords)]
    /\ UNCHANGED <<weather, animVars, geoVars, retryVars, svcVars, stateVars, analysisOf, liveTrafficOf, routeAnalysisOf>>

\* analyzeStreetConditions / analyzeRouteLogistics of request id settles. What it
\* settles with is read by nobody before the join, so it is drawn there.
AnalysisSettles(id) ==
    /\ tasks[id].pc = "fanout"
    /\ ~tasks[id].aDone
    /\ tasks' = [tasks EXCEPT ![id].aDone = TRUE]
    /\ UNCHANGED <<weather, animVars, geoVars, retryVars, svcVars, stateVars, analysisOf, liveTrafficOf, routeAnalysisOf>>

\* getLiveTrafficUpdates of request id settles
LiveSettles(id) ==
    /\ tasks[id].pc = "fanout"
    /\ ~tasks[id].lDone
    /\ tasks' = [tasks EXCEPT ![id].lDone = TRUE]
    /\ UNCHANGED <<weather, animVars, geoVars, retryVars, svcVars, stateVars, analysisOf, liveTrafficOf, routeAnalysisOf>>

\* handleLocationSelect from where await Promise.all resumes to its end:
\* setAnalysis, setIsHighlightSuitable, the outline request and setLiveTraffic,
\* or the catch block when the join rejected; finally setLoading(false)
SelectCommit(id, endedA, endedL) ==
    /\ tasks[id].kind = "select"
    /\ tasks[id].pc = "fanout"
    /\ LET aRes == IF tasks[id].aDone
                   THEN AnalyzeStreetConditions(endedA, tasks[id].osm) ELSE Undef
           lRes == IF tasks[id].lDone THEN GetLiveTrafficUpdates(endedL) ELSE Undef
           analysisResult == Fulfilled(aRes)
           validName == OrElse(OsmName(tasks[id].osm), Get(analysisResult, "streetName"))
       IN /\ JoinSettled(tasks[id]) \/ JoinRejected(aRes, lRes)
          /\ IF JoinRejected(aRes, lRes)
             THEN /\ error' = Str("Failed to analyze location.")
                  /\ tasks' = [tasks EXCEPT ![id] = Finished(tasks[id])]
                  /\ UNCHANGED <<analysis, analysisOf, isHighlightSuitable,
                                 liveTraffic, liveTrafficOf>>
             ELSE /\ analysis' = analysisResult
                  /\ analysisOf' = id
                  /\ isHighlightSuitable' = Get(analysisResult, "isTruckSuitable")
                  /\ tasks' = [tasks EXCEPT ![id] =
                                 IF HighlightableName(validName)
                                 THEN [Finished(tasks[id]) EXCEPT !.pc = "outline",
                                                                  !.osm = validName]
                                 ELSE Finished(tasks[id])]
                  /\ liveTraffic' = Fulfilled(lRes)
                  /\ liveTrafficOf' = id
                  /\ UNCHANGED error
          /\ loading' = FALSE
    /\ UNCHANGED <<weather, animVars, geoVars, retryVars, svcVars, selectedVehicle, mode, highlightedSegments, routePoints,
                   routeCoordinates, routeAnalysis, routeStreetNames, markers,
                   routeAnalysisOf>>

\* getStreetGeometry(...).then(segments => setHighlightedSegments(segments))
OutlineResolves(id, segments) ==
    /\ tasks[id].pc = "outline"
    /\ segments \in GeometryOutcomes(tasks[id].osm)
    /\ highlightedSegments' = segments
    /\ tasks' = [tasks EXCEPT ![id] = Finished(tasks[id])]
    /\ UNCHANGED <<weather, animVars, geoVars, retryVars, svcVars, selectedVehicle, mode, analysis, isHighlightSuitable,
                   routePoints, routeCoordinates, routeAnalysis, routeStreetNames,
                   loading, liveTraffic, markers, error,
                   analysisOf, liveTrafficOf, routeAnalysisOf>>

\* onCalculateRoute: the button is rendered in route mode and is disabled while
\* routePoints.length < 2 || loading
CalculateEnabled == mode = "route" /\ Len(routePoints) >= 2 /\ ~loading

\* What the session holds of the last route analysis when handleCalculateRoute
\* is called (kept while calculateRoute is awaited).
HeldResults == [routeAnalysis |-> routeAnalysis, liveTraffic |-> liveTraffic]

\* handleCalculateRoute up to await calculateRoute(routePoints)
HandleCalculateRoute ==
    /\ IF Len(routePoints) < 2
       THEN UNCHANGED appVars
       ELSE /\ loading' = TRUE
            /\ error' = Null
            /\ routeAnalysis' = Null
            /\ routeAnalysisOf' = 0
            /\ liveTraffic' = Null
            /\ liveTrafficOf' = 0
            /\ highlightedSegments' = <<>>
            /\ tasks' = Append(tasks, [NewTask("calc", "routing", mode, selectedVehicle,
                                               routePoints, 0) EXCEPT !.held = HeldResults])
            /\ UNCHANGED <<selectedVehicle, mode, analysis, isHighlightSuitable, routePoints,
                           routeCoordinates, routeStreetNames, markers, analysisOf>>
    /\ UNCHANGED <<weather, animVars, geoVars, retryVars, svcVars>>

CalculateRoute == CanStart /\ CalculateEnabled /\ HandleCalculateRoute

\* calculateRoute resolves: setRouteCoordinates, setRouteStreetNames, and the two
\* calls of Promise.all are started; or it rejects: catch and finally
RoutingSettles(id, outcome) ==
    /\ tasks[id].pc = "routing"
    /\ outcome \in RoutingOutcomes(tasks[id].points)
    /\ IF outcome.kind = "return"
       THEN /\ routeCoordinates' = outcome.value.coordinates
            /\ routeStreetNames' = outcome.value.streetNames
            /\ tasks' = [tasks EXCEPT ![id].pc = "fanout", ![id].points = <<>>,
                                      ![id].held = Null]
            /\ UNCHANGED <<loading, error>>
       ELSE /\ error' = Str("Failed to calculate or analyze route.")
            /\ loading' = FALSE
            /\ tasks' = [tasks EXCEPT ![id] = Finished(tasks[id])]
            /\ UNCHANGED <<routeCoordinates, routeStreetNames>>
    /\ UNCHANGED <<weather, animVars, geoVars, retryVars, svcVars, selectedVehicle, mode, analysis, highlightedSegments,
                   isHighlightSuitable, routePoints, routeAnalysis, liveTraffic, markers,
                   analysisOf, liveTrafficOf, routeAnalysisOf>>

\* handleCalculateRoute from where await Promise.all resumes to its end:
\* setRouteAnalysis and setLiveTraffic, or the catch block when the join rejected;
\* finally setLoading(false)
CalculateCommit(id, endedA, endedL) ==
    /\ tasks[id].kind = "calc"
    /\ tasks[id].pc = "fanout"
    /\ LET aRes == IF tasks[id].aDone THEN AnalyzeRouteLogistics(endedA) ELSE Undef
           lRes == IF tasks[id].lDone THEN GetLiveTrafficUpdates(endedL) ELSE Undef
       IN /\ JoinSettled(tasks[id]) \/ JoinRejected(aRes, lRes)
          /\ IF JoinRejected(aRes, lRes)
             THEN /\ error' = Str("Failed to calculate or analyze route.")
                  /\ UNCHANGED <<routeAnalysis, routeAnalysisOf, liveTraffic, liveTrafficOf>>
             ELSE /\ routeAnalysis' = Fulfilled(aRes)
                  /\ routeAnalysisOf' = id
                  /\ liveTraffic' = Fulfilled(lRes)
                  /\ liveTrafficOf' = id
                  /\ UNCHANGED error
    /\ loading' = FALSE
    /\ tasks' = [tasks EXCEPT ![id] = Finished(tasks[id])]
    /\ UNCHANGED <<weather, animVars, geoVars, retryVars, svcVars, selectedVehicle, mode, analysis, highlightedSegments,
                   isHighlightSuitable, routePoints, routeCoordinates, routeStreetNames,
                   markers, analysisOf>>

\* handleSearch up to await geocodeStreet(query); it holds the handleLocationSelect
\* of the render it was created in
HandleSearch ==
    /\ loading' = TRUE
    /\ error' = Null
    /\ tasks' = Append(tasks, NewTask("search", "geocode", mode, selectedVehicle,
                                      routePoints, 0))
    /\ UNCHANGED <<weather, animVars, geoVars, retryVars, svcVars, selectedVehicle, mode, analysis, highlightedSegments,
                   isHighlightSuitable, routePoints, routeCoordinates, routeAnalysis,
                   routeStreetNames, liveTraffic, markers,
                   analysisOf, liveTrafficOf, routeAnalysisOf>>

Search == CanStart /\ HandleSearch

\* geocodeStreet resolves with coordinates: await handleLocationSelect(coords)
GeocodeFound(id, c) ==
    /\ tasks[id].pc = "geocode"
    /\ HandleLocationSelect(id, c, tasks[id].mode, tasks[id].vehicle, tasks[id].points,
                            [tasks EXCEPT ![id].kind = "search"])
    /\ UNCHANGED <<weather, animVars, geoVars, retryVars, svcVars>>

\* geocodeStreet resolves with null (no result, or the request failed)
GeocodeNotFound(id) ==
    /\ tasks[id].pc = "geocode"
    /\ error' = Str("Location not found in Cologne.")
    /\ loading' = FALSE
    /\ tasks' = [tasks EXCEPT ![id] = Finished(tasks[id])]
    /\ UNCHANGED <<weather, animVars, geoVars, retryVars, svcVars, selectedVehicle, mode, analysis, highlightedSegments,
                   isHighlightSuitable, routePoints, routeCoordinates, routeAnalysis,
                   routeStreetNames, liveTraffic, markers,
                   analysisOf, liveTrafficOf, routeAnalysisOf>>

\* handleClearRoute; its button is rendered in route mode while routePoints.length > 0
ClearRoute ==
    /\ mode = "route"
    /\ Len(routePoints) > 0
    /\ routePoints' = <<>>
    /\ routeCoordinates' = <<>>
    /\ routeStreetNames' = <<>>
    /\ routeAnalysis' = Null
    /\ routeAnalysisOf' = 0
    /\ liveTraffic' = Null
    /\ liveTrafficOf' = 0
    /\ markers' = <<>>
    /\ UNCHANGED <<weather, animVars, geoVars, retryVars, svcVars, selectedVehicle, mode, analysis, highlightedSegments,
                   isHighlightSuitable, loading, error, tasks, analysisOf>>

\* handleModeSwitch(newMode)
ModeSwitch(newMode) ==
    /\ mode' = newMode
    /\ error' = Null
    /\ highlightedSegments' = <<>>
    /\ markers' = <<>>
    /\ IF newMode = "explore"
       THEN /\ routePoints' = <<>>
            /\ routeCoordinates' = <<>>
            /\ UNCHANGED <<analysis, analysisOf, liveTraffic, liveTrafficOf>>
       ELSE /\ analysis' = Null
            /\ analysisOf' = 0
            /\ liveTraffic' = Null
            /\ liveTrafficOf' = 0
            /\ UNCHANGED <<routePoints, routeCoordinates>>
    /\ UNCHANGED <<weather, animVars, geoVars, retryVars, svcVars, selectedVehicle, isHighlightSuitable, routeAnalysis,
                   routeStreetNames, loading, tasks, routeAnalysisOf>>

\* onVehicleChange(type)
VehicleChange(type) ==
    /\ selectedVehicle' = type
    /\ analysis' = Null
    /\ analysisOf' = 0
    /\ routeAnalysis' = Null
    /\ routeAnalysisOf' = 0
    /\ liveTraffic' = Null
    /\ liveTrafficOf' = 0
    /\ highlightedSegments' = <<>>
    /\ UNCHANGED <<weather, animVars, geoVars, retryVars, svcVars, mode, isHighlightSuitable, routePoints,
                   routeCoordinates, routeStreetNames, loading, markers, error, tasks>>

\* The timestamp of the first animation frame of the page.
FirstFrame == 2500

\* No map-service call is modelled.
GeoIdle ==
    /\ geoFn = "none"
    /\ geoArgs = Null
    /\ geoBackend = Null
    /\ geoPc = "idle"
    /\ geoRequests = <<>>
    /\ geoResult = Undef

\* No AnimatedRouteMarker is mounted.
AnimIdle ==
    /\ startTimeRef = 0
    /\ requestRef = Null
    /\ frameTime = FirstFrame
    /\ frame = Null

\* The useState initial values; no handler has run.
AppInit ==
    /\ selectedVehicle = "LKW (Heavy > 7.5t)"
    /\ mode = "explore"
    /\ analysis = Null
    /\ highlightedSegments = <<>>
    /\ isHighlightSuitable = Bool(TRUE)
    /\ routePoints = <<>>
    /\ routeCoordinates = <<>>
    /\ routeAnalysis = Null
    /\ routeStreetNames = <<>>
    /\ loading = FALSE
    /\ liveTraffic = Null
    /\ markers = <<>>
    /\ error = Null
    /\ tasks = <<>>
    /\ analysisOf = 0
    /\ liveTrafficOf = 0
    /\ routeAnalysisOf = 0

TaskIds == 1..Len(tasks)

OsmResolvesAny == \E id \in TaskIds, details \in SessionOsm : OsmResolves(id, details)
AnalysisSettlesAny == \E id \in TaskIds : AnalysisSettles(id)
LiveSettlesAny == \E id \in TaskIds : LiveSettles(id)
SelectCommitAny == \E id \in TaskIds, endedA \in StreetEndings, endedL \in LiveEndings : SelectCommit(id, endedA, endedL)
CalculateCommitAny == \E id \in TaskIds, endedA \in RouteEndings, endedL \in LiveEndings : CalculateCommit(id, endedA, endedL)
OutlineResolvesAny == \E id \in TaskIds : \E segments \in GeometryOutcomes(tasks[id].osm) : OutlineResolves(id, segments)
RoutingSettlesAny == \E id \in TaskIds : \E outcome \in RoutingOutcomes(tasks[id].points) : RoutingSettles(id, outcome)
GeocodeFoundAny == \E id \in TaskIds : GeocodeFound(id, id)
GeocodeNotFoundAny == \E id \in TaskIds : GeocodeNotFound(id)
ModeSwitchAny == \E newMode \in {"explore", "route"} : ModeSwitch(newMode)
VehicleChangeAny == \E type \in SessionVehicles : VehicleChange(type)

RetryInitCommon ==
    /\ attempt = 0
    /\ lastError = Undef
    /\ calls = 0
    /\ waits = <<>>
    /\ pc = "start"
    /\ retValue = Undef
    /\ result = Undef

\* The wrapper on its own, under every policy within the bounds.
InitRetry ==
    /\ caller = "direct"
    /\ maxRetries \in 0..MaxRetriesBound
    /\ baseDelay \in BaseDelays
    /\ vehicleType = "none"
    /\ osmData = Null
    /\ RetryInitCommon
    /\ AppInit
    /\ GeoIdle
    /\ AnimIdle
    /\ weather = Null

NextRetry ==
    \/ RetryEnter
    \/ RetryInvoke
    \/ RetryCatchAny
    \/ RetryTimer
    \/ RetryReturnAny

SpecRetry == InitRetry /\ [][NextRetry]_vars

\* The three analysis and live-conditions functions, each called as App.tsx calls
\* it: retryGeminiCall with its default policy.
InitGemini ==
    /\ caller \in {"street", "route", "live", "weather"}
    /\ maxRetries = IF caller = "weather" THEN WeatherMaxRetries ELSE DefaultMaxRetries
    /\ baseDelay = IF caller = "weather" THEN WeatherBaseDelay ELSE DefaultBaseDelay
    /\ vehicleType \in (IF caller \in {"live", "weather"} THEN {"none"} ELSE VehicleTypes)
    /\ osmData \in (IF caller = "street" THEN OsmContexts ELSE {Null})
    /\ RetryInitCommon
    /\ AppInit
    /\ GeoIdle
    /\ AnimIdle
    /\ weather = Null

NextGemini ==
    \/ RetryEnter
    \/ RetryInvoke
    \/ RetryCatchAny
    \/ RetryTimer
    \/ RetryReturnAny
    \/ StreetFinish
    \/ RouteFinish
    \/ LiveFinish
    \/ WeatherFinish
    \/ WeatherShown

SpecGemini == InitGemini /\ [][NextGemini]_vars

\* The session: every handler of App.tsx, the calls they await settling in any
\* order, within MaxEvents user actions that start a handler.
InitApp ==
    /\ caller = "direct"
    /\ maxRetries = DefaultMaxRetries
    /\ baseDelay = DefaultBaseDelay
    /\ vehicleType = "none"
    /\ osmData = Null
    /\ RetryInitCommon
    /\ AppInit
    /\ GeoIdle
    /\ AnimIdle
    /\ weather = Null

NextApp ==
    \/ MapClick
    \/ OsmResolvesAny
    \/ AnalysisSettlesAny
    \/ LiveSettlesAny
    \/ SelectCommitAny
    \/ OutlineResolvesAny
    \/ CalculateRoute
    \/ RoutingSettlesAny
    \/ CalculateCommitAny
    \/ Search
    \/ GeocodeFoundAny
    \/ GeocodeNotFoundAny
    \/ ClearRoute
    \/ ModeSwitchAny
    \/ VehicleChangeAny

SpecApp == InitApp /\ [][NextApp]_vars

\* Waypoint editing: the session stays with the route planner's waypoint list
\* (clicks and searches in route mode, clears, mode switches), within
\* MaxRouteEvents clicks and searches, at most MaxPendingSearches searches pending.
\* Every click and every search result points at the same place, WaypointPlace
\* (the code accepts a place that is already a waypoint).
MaxRouteEvents == 12
MaxPendingSearches == 1
WaypointPlace == 1

WaypointClick ==
    /\ mode = "route"
    /\ Len(tasks) < MaxRouteEvents
    /\ OnLocationSelect(WaypointPlace)

WaypointSearch ==
    /\ mode = "route"
    /\ Len(tasks) < MaxRouteEvents
    /\ InFlight < MaxPendingSearches
    /\ HandleSearch

WaypointFound == \E id \in TaskIds : GeocodeFound(id, WaypointPlace)

NextWaypoints ==
    \/ WaypointClick
    \/ WaypointSearch
    \/ WaypointFound
    \/ GeocodeNotFoundAny
    \/ ClearRoute
    \/ ModeSwitchAny

SpecWaypoints == InitApp /\ [][NextWaypoints]_vars

\* Routing requests: waypoint editing as above, and route calculations from the
\* waypoints held, one handler awaiting at a time, each followed up to the answer
\* of calculateRoute.  A calculation whose route was found is left awaiting its
\* two analysis calls; how it goes on is the subject of SpecPlanner.
RequestRoute ==
    /\ Len(tasks) < MaxRouteEvents
    /\ InFlight < MaxPendingSearches
    /\ CalculateEnabled
    /\ HandleCalculateRoute

NextRouteRequests ==
    \/ WaypointClick
    \/ WaypointSearch
    \/ WaypointFound
    \/ GeocodeNotFoundAny
    \/ ClearRoute
    \/ ModeSwitchAny
    \/ RequestRoute
    \/ RoutingSettlesAny

SpecRouteRequests == InitApp /\ [][NextRouteRequests]_vars

\* Route planning: the session stays in the route planner (waypoint clicks, route
\* calculations with their calls settling in any order, clears, mode switches),
\* within MaxPlannerEvents clicks and calculations.
MaxPlannerEvents == 4

PlannerClick ==
    /\ mode = "route"
    /\ Len(tasks) < MaxPlannerEvents
    /\ OnLocationSelect(Len(tasks) + 1)

PlannerCalculate ==
    /\ Len(tasks) < MaxPlannerEvents
    /\ CalculateEnabled
    /\ HandleCalculateRoute

NextPlanner ==
    \/ PlannerClick
    \/ PlannerCalculate
    \/ RoutingSettlesAny
    \/ AnalysisSettlesAny
    \/ LiveSettlesAny
    \/ CalculateCommitAny
    \/ ClearRoute
    \/ ModeSwitchAny

SpecPlanner == InitApp /\ [][NextPlanner]_vars

GeoArguments(fn) ==
    CASE fn = "calculateRoute" -> WaypointLists
      [] fn = "geocodeStreet" -> GeocodeQueries
      [] fn = "getNearestStreetDetails" -> Places
      [] fn = "getStreetGeometry" -> GeometryArguments
GeoAnswers(fn) ==
    CASE fn = "calculateRoute" -> RoutingAnswers
      [] fn = "geocodeStreet" -> GeocodeAnswers
      [] fn = "getNearestStreetDetails" -> NearestAnswers
      [] fn = "getStreetGeometry" -> GeometryAnswers

\* One call of a map-service function, with every argument and every answer of
\* the remote service in the sets above.
InitGeo ==
    /\ caller = "direct"
    /\ maxRetries = DefaultMaxRetries
    /\ baseDelay = DefaultBaseDelay
    /\ vehicleType = "none"
    /\ osmData = Null
    /\ RetryInitCommon
    /\ AppInit
    /\ geoFn \in {"calculateRoute", "geocodeStreet", "getNearestStreetDetails",
                 "getStreetGeometry"}
    /\ geoArgs \in GeoArguments(geoFn)
    /\ geoBackend \in GeoAnswers(geoFn)
    /\ geoPc = "ready"
    /\ geoRequests = <<>>
    /\ geoResult = Undef
    /\ AnimIdle
    /\ weather = Null

NextGeo ==
    \/ RouteRequest
    \/ RouteResponse
    \/ GeocodeRequest
    \/ GeocodeResponse
    \/ NearestRequest
    \/ NearestResponse
    \/ GeometryRequest
    \/ GeometryResponse

SpecGeo == InitGeo /\ [][NextGeo]_vars

(***************************************************************************)
(* InfoPanel.tsx: AnimatedRouteMarker.  MapComponent renders it while       *)
(* routeCoordinates is not empty; a change of routeCoordinates or of the    *)
(* vehicle re-renders it, and the commit of that render runs the cleanup of *)
(* the previous effect and then the effect, in one step.  The polylines of  *)
(* the model run along one meridian, where getDistance is R times the       *)
(* difference in latitude and getBearing is 0 (north) or 180 (south);       *)
(* distances are in units of R * pi / 180 metres.  Positions are exact      *)
(* fractions n / d.                                                         *)
(***************************************************************************)
DURATION == 10000

\* The timestamps handed to animate are read only through
\* (time - startTimeRef.current) % DURATION and through the test
\* !startTimeRef.current, so the clock is kept in 1..ClockPeriod and wraps.
ClockPeriod == 2 * DURATION
FrameSteps == {2500, 5000, 7500, 10000}
ClockAfter(time, step) == ((time + step - 1) % ClockPeriod) + 1
Since(time, start) == (time - start) % ClockPeriod

MaxAnimLen == 3
MeridianPoints == {<<50, 7>>, <<51, 7>>, <<52, 7>>}
MeridianPolylines == SeqsUpTo(MeridianPoints, MaxAnimLen)

\* getDistance and getBearing for two points of one meridian
GetDistance(p, q) == IF p[1] >= q[1] THEN p[1] - q[1] ELSE q[1] - p[1]
GetBearing(p, q) == IF q[1] < p[1] THEN 180 ELSE 0

\* const segments = useMemo(...): for fewer than two points the memo is [], whose
\* totalDist is undefined and so falsy, as 0 is
SegmentsOf(route) ==
    IF Len(route) < 2 THEN [totalDist |-> 0, dists |-> <<>>]
    ELSE LET acc[i \in 1..Len(route)] ==
                 IF i = 1 THEN 0 ELSE acc[i - 1] + GetDistance(route[i - 1], route[i])
         IN [totalDist |-> acc[Len(route)], dists |-> [i \in 1..Len(route) |-> acc[i]]]

\* the effect leaves without requesting a frame: if (!segments.totalDist || route.length < 2) return
EffectStartsLengthOnly(route) == Len(route) >= 2
EffectStarts(route) == ~(SegmentsOf(route).totalDist = 0 \/ Len(route) < 2)

\* the for loop of animate: the first segment with dists[i] <= currentDist < dists[i+1],
\* the first segment of all when there is none (currentDist is scaledDist / DURATION)
FindSegmentAny(dists, scaledDist) ==
    LET hits == {i \in 1..(Len(dists) - 1) : scaledDist >= dists[i] * DURATION}
    IN IF hits = {} THEN 1 ELSE CHOOSE i \in hits : \A j \in hits : i <= j
FindSegment(dists, scaledDist) ==
    LET hits == {i \in 1..(Len(dists) - 1) :
                    /\ scaledDist >= dists[i] * DURATION
                    /\ scaledDist < dists[i + 1] * DURATION}
    IN IF hits = {} THEN 1 ELSE CHOOSE i \in hits : \A j \in hits : i <= j

\* (elapsed % DURATION), the numerator of progress; the second form stops at the
\* end of the polyline
CycleTimeStopping(elapsed) == IF elapsed >= DURATION THEN DURATION ELSE elapsed
CycleTime(elapsed) == elapsed % DURATION

\* the reference never reset: what the code does when the polyline is replaced
\* while the component stays mounted
StartAfterCommit(wasMounted) == IF wasMounted THEN startTimeRef ELSE 0

\* one run of animate(time) of the effect that closed over `closure`, with
\* startTimeRef.current = start on entry
Animate(closure, time, start) ==
    LET route == closure.route
        segments == SegmentsOf(route)
        begun == IF start = 0 THEN time ELSE start
        elapsed == Since(time, begun)
        sinceCycle == CycleTime(elapsed)            \* progress * DURATION
        scaledDist == sinceCycle * segments.totalDist   \* currentDist * DURATION
        index == FindSegment(segments.dists, scaledDist)
        segmentLen == segments.dists[index + 1] - segments.dists[index]
        along == scaledDist - segments.dists[index] * DURATION
        den == DURATION * segmentLen               \* segmentProgress = along / den
        p1 == route[index]
        p2 == route[index + 1]
    IN [route |-> route, vehicleType |-> closure.vehicleType, start |-> begun,
        time |-> time, sinceCycle |-> sinceCycle, scaledDist |-> scaledDist,
        index |-> index, segmentLen |-> segmentLen,
        lat |-> [n |-> p1[1] * den + (p2[1] - p1[1]) * along, d |-> den],
        lng |-> [n |-> p1[2] * den + (p2[2] - p1[2]) * along, d |-> den],
        bearing |-> GetBearing(p1, p2)]

\* The commit of a render of MapComponent with the polyline `route` and the
\* vehicle `type`: unmounting runs the cleanup and drops the references;
\* otherwise the cleanup cancels the requested frame and the effect requests one
\* for the new closure unless it leaves early.  A fresh mount starts with
\* startTimeRef.current = 0; a re-render keeps the reference.
CommitRender(route, type) ==
    IF route = <<>>
    THEN /\ startTimeRef' = 0
         /\ requestRef' = Null
         /\ frame' = Null
    ELSE /\ startTimeRef' = StartAfterCommit(routeCoordinates # <<>>)
         /\ requestRef' = IF EffectStarts(route)
                          THEN [route |-> route, vehicleType |-> type] ELSE Null
         /\ frame' = IF route = routeCoordinates /\ requestRef # Null THEN frame ELSE Null

\* MapComponent is rendered with another polyline in its routeCoordinates prop,
\* as after setRouteCoordinates(routeData.coordinates) of handleCalculateRoute:
\* the polyline is set, or replaced while one is shown.  Of the session only the
\* two props of the animator are followed here.
SetRouteCoordinates(route) ==
    /\ route # <<>>
    /\ routeCoordinates' = route
    /\ CommitRender(route, selectedVehicle)
    /\ UNCHANGED <<frameTime, selectedVehicle, mode, analysis, highlightedSegments,
                   isHighlightSuitable, routePoints, routeAnalysis, routeStreetNames,
                   loading, liveTraffic, markers, error, tasks, analysisOf, liveTrafficOf,
                   routeAnalysisOf, geoVars, retryVars, svcVars, weather>>

\* MapComponent is rendered with an empty routeCoordinates prop, as after
\* setRouteCoordinates([]) of handleClearRoute and of handleModeSwitch('explore')
ClearPolyline ==
    /\ routeCoordinates # <<>>
    /\ routeCoordinates' = <<>>
    /\ CommitRender(<<>>, selectedVehicle)
    /\ UNCHANGED <<frameTime, selectedVehicle, mode, analysis, highlightedSegments,
                   isHighlightSuitable, routePoints, routeAnalysis, routeStreetNames,
                   loading, liveTraffic, markers, error, tasks, analysisOf, liveTrafficOf,
                   routeAnalysisOf, geoVars, retryVars, svcVars, weather>>

\* MapComponent is rendered with another vehicleType prop, as after
\* onVehicleChange; vehicleType is a dependency of the effect
AnimVehicleChange(type) ==
    /\ type # selectedVehicle
    /\ selectedVehicle' = type
    /\ CommitRender(routeCoordinates, type)
    /\ UNCHANGED <<frameTime, routeCoordinates, mode, analysis, highlightedSegments,
                   isHighlightSuitable, routePoints, routeAnalysis, routeStreetNames,
                   loading, liveTraffic, markers, error, tasks, analysisOf, liveTrafficOf,
                   routeAnalysisOf, geoVars, retryVars, svcVars, weather>>

\* The browser runs the requested frame `step` ms after the latest one:
\* animate(time) moves the marker and requests the next frame.
AnimationFrame(step) ==
    /\ requestRef # Null
    /\ frameTime' = ClockAfter(frameTime, step)
    /\ frame' = Animate(requestRef, frameTime', startTimeRef)
    /\ startTimeRef' = frame'.start
    /\ requestRef' = requestRef
    /\ UNCHANGED <<appVars, geoVars, retryVars, svcVars, weather>>

\* A frame passes while no animation frame is requested.
IdleFrame(step) ==
    /\ requestRef = Null
    /\ frameTime' = ClockAfter(frameTime, step)
    /\ UNCHANGED <<startTimeRef, requestRef, frame, appVars, geoVars, retryVars, svcVars, weather>>

SetRouteCoordinatesAny == \E route \in MeridianPolylines : SetRouteCoordinates(route)
AnimVehicleChangeAny == \E type \in SessionVehicles : AnimVehicleChange(type)
AnimationFrameAny == \E step \in FrameSteps : AnimationFrame(step)
IdleFrameAny == \E step \in FrameSteps : IdleFrame(step)

NextAnimator ==
    \/ SetRouteCoordinatesAny
    \/ ClearPolyline
    \/ AnimVehicleChangeAny
    \/ AnimationFrameAny
    \/ IdleFrameAny

SpecAnimator == InitApp /\ [][NextAnimator]_vars

\* The same with shorter polylines, and with the fairness of the browser:
\* requestAnimationFrame callbacks are run as long as the page is shown.
MaxLoopLen == 2
SetLoopCoordinatesAny ==
    \E route \in SeqsUpTo(MeridianPoints, MaxLoopLen) : SetRouteCoordinates(route)

NextAnimatorLoop ==
    \/ SetLoopCoordinatesAny
    \/ ClearPolyline
    \/ AnimVehicleChangeAny
    \/ AnimationFrameAny
    \/ IdleFrameAny

SpecAnimatorFair ==
    InitApp /\ [][NextAnimatorLoop]_vars /\ WF_vars(AnimationFrameAny)

(***************************************************************************)
(* Properties of retryGeminiCall (checked under SpecRetry)                 *)
(***************************************************************************)

\* C1: the k-th wait handed to setTimeout (k counted from 1, after the k-th
\* rate-limited failure) is exactly baseDelay * 2^(k-1) ms; every invocation after
\* the first is preceded by its wait; and operation() is invoked at most
\* maxRetries + 1 times.
C1_BackoffDelaysAndBudget ==
    /\ calls <= maxRetries + 1
    /\ \A k \in 1..Len(waits) : waits[k] = baseDelay * 2^(k - 1)
    /\ Len(waits) <= calls
    /\ calls <= Len(waits) + 1

C1_Witness ==
    /\ pc = "thrown"
    /\ maxRetries >= 3
    /\ calls = maxRetries + 1
    /\ Len(waits) = maxRetries
    /\ baseDelay = DefaultBaseDelay

\* C2: once an invocation has failed with an error the wrapper does not class as
\* rate-limited, the wrapper has thrown that very error, no wait was scheduled
\* after it and no invocation followed it, whatever preceded it.
C2_OtherFailureRethrownAtOnce ==
    (lastError.t = "error" /\ ~RetryIsRateLimit(lastError)) =>
        /\ pc = "thrown"
        /\ retValue = lastError
        /\ lastError.id = calls
        /\ Len(waits) = calls - 1

C2_Witness ==
    /\ pc = "thrown"
    /\ retValue.t = "error"
    /\ ~RetryIsRateLimit(retValue)
    /\ calls >= 3
    /\ calls < maxRetries + 1

\* C3: once the invocation number maxRetries + 1 has failed rate-limited (so every
\* invocation has), the wrapper has thrown the error of that last invocation, and
\* the waits scheduled are the maxRetries ones before it: none after it.
C3_ExhaustionThrowsLastError ==
    (lastError.t = "error" /\ lastError.id = maxRetries + 1 /\ RetryIsRateLimit(lastError)) =>
        /\ pc = "thrown"
        /\ retValue = lastError
        /\ retValue.id = calls
        /\ calls = maxRetries + 1
        /\ Len(waits) = maxRetries

C3_Witness ==
    /\ pc = "thrown"
    /\ retValue.t = "error"
    /\ RetryIsRateLimit(retValue)
    /\ maxRetries >= 2
    /\ retValue.id = maxRetries + 1

(***************************************************************************)
(* Properties of the service functions (checked under SpecGemini)          *)
(***************************************************************************)

\* The declared result type of the running service function.
IsDeclaredResult(x) ==
    CASE caller = "street" -> IsStreetAnalysis(x)
      [] caller = "route" -> IsRouteAnalysis(x)
      [] caller = "live" -> IsLiveTrafficData(x)
      [] caller = "weather" ->
            x.t = "obj" /\ DOMAIN x.v = {"temp", "condition", "impact", "isSevere"}
      [] OTHER -> FALSE

\* The remote call ended in one of the ways C4 lists: it failed (rate-limited on
\* every attempt, or otherwise), or it succeeded with an empty text, with a text
\* that is no JSON, or with an instance of the response schema.
ListedOutcome ==
    \/ retValue.t = "error"
    \/ /\ retValue.t = "response"
       /\ \/ caller = "live"
          \/ ~Truthy(retValue.text)
          \/ "parseError" \in DOMAIN retValue.text
          \/ /\ "json" \in DOMAIN retValue.text
             /\ \/ caller = "street" /\ ConformsToAnalysisSchema(retValue.text.json)
                \/ caller = "route" /\ ConformsToRouteSchema(retValue.text.json)

NeverThrowsAndFallbacksWellTyped ==
    /\ pc # "escaped"
    /\ (pc = "done" /\ (retValue.t = "error" \/ ~Truthy(retValue.text)
                        \/ "parseError" \in DOMAIN retValue.text))
          => IsDeclaredResult(result)

\* C5: every StreetAnalysis returned by analyzeStreetConditions has a
\* congestionCurve of exactly 12 elements, each an integer in 0..10.
C5_CurveTwelveInRange ==
    (caller = "street" /\ pc = "done") =>
        LET curve == Get(result, "congestionCurve") IN
        /\ curve.t = "arr"
        /\ Len(curve.v) = 12
        /\ \A i \in 1..Len(curve.v) : curve.v[i] \in 0..10

\* C6: when the generator call ends rate-limited, analyzeStreetConditions returns
\* isTruckSuitable = true and the curve [2,2,2,5,5,5,5,5,5,5,2,2]; when it ends
\* with any other failure, isTruckSuitable = false and twelve zeros; the two
\* fallback values differ for every verified context.
C6_StreetFallbackShapes ==
    /\ (caller = "street" /\ pc = "done" /\ retValue.t = "error") =>
          IF IsRateLimitError(retValue)
          THEN /\ Get(result, "isTruckSuitable") = Bool(TRUE)
               /\ Get(result, "congestionCurve") = Arr(<<2, 2, 2, 5, 5, 5, 5, 5, 5, 5, 2, 2>>)
          ELSE /\ Get(result, "isTruckSuitable") = Bool(FALSE)
               /\ Get(result, "congestionCurve") = Arr(<<0, 0, 0, 0, 0, 0, 0, 0, 0, 0, 0, 0>>)
    /\ \A osm \in OsmContexts : DegradedStreet(osm) # FailedStreet(osm)

C6_Witness ==
    /\ caller = "street"
    /\ pc = "done"
    /\ retValue.t = "error"
    /\ IsRateLimitError(retValue)
    /\ calls = DefaultMaxRetries + 1
    /\ osmData # Null
    /\ Get(result, "isTruckSuitable") = Bool(TRUE)

\* The failed result of the running analysis function.
FailedResult == IF caller = "street" THEN FailedStreet(osmData) ELSE FailedRoute

\* The generator's response is no well-formed instance of the output schema.
MalformedResponse ==
    /\ retValue.t = "response"
    /\ Truthy(retValue.text)
    /\ \/ "parseError" \in DOMAIN retValue.text
       \/ /\ "json" \in DOMAIN retValue.text
          /\ \/ caller = "street" /\ ~ConformsToAnalysisSchema(retValue.text.json)
             \/ caller = "route" /\ ~ConformsToRouteSchema(retValue.text.json)

\* C7: when the generator's response is no well-formed instance of the output
\* schema, analyzeStreetConditions and analyzeRouteLogistics return their failed
\* result.
C7_MalformedIsHardFailure ==
    (caller \in {"street", "route"} /\ pc = "done" /\ MalformedResponse) =>
        result = FailedResult

\* C8: when the generator call ends rate-limited, analyzeRouteLogistics returns
\* suitabilityScore 50, isRouteSuitable true and the warning that verification is
\* incomplete; on any other failure, score 0, unsuitable and the warning that the
\* service is unavailable.
C8_RouteFallbackShapes ==
    (caller = "route" /\ pc = "done" /\ retValue.t = "error") =>
        IF IsRateLimitError(retValue)
        THEN /\ Get(result, "suitabilityScore") = Num(50)
             /\ Get(result, "isRouteSuitable") = Bool(TRUE)
             /\ Get(result, "majorWarnings") = Arr(<<"AI Service Busy - Verification Incomplete">>)
        ELSE /\ Get(result, "suitabilityScore") = Num(0)
             /\ Get(result, "isRouteSuitable") = Bool(FALSE)
             /\ Get(result, "majorWarnings") = Arr(<<"AI Analysis Service Unavailable">>)

C8_Witness ==
    /\ caller = "route"
    /\ pc = "done"
    /\ retValue.t = "error"
    /\ ~IsRateLimitError(retValue)
    /\ calls >= 2
    /\ Get(result, "suitabilityScore") = Num(0)

\* getLiveTrafficUpdates ended on a failure path: the remote call failed, or the
\* handling of its response raised an error.
LiveFailed == retValue.t = "error" \/ LiveTry(retValue).kind = "throw"

\* C9: on every failure getLiveTrafficUpdates returns a snapshot with no sources:
\* the 'temporarily unavailable' summary when the call ended rate-limited, the
\* 'Unable to fetch' summary on any other failure; the two summaries differ.
C9_LiveFallbacks ==
    (caller = "live" /\ pc = "done" /\ LiveFailed) =>
        /\ Get(result, "sources") = Arr(<<>>)
        /\ Get(result, "summary") =
              IF retValue.t = "error" /\ IsRateLimitError(retValue)
              THEN Str("Live traffic updates temporarily unavailable due to high service demand. Please drive carefully.")
              ELSE Str("Unable to fetch live traffic data at this time.")
        /\ Str("Live traffic updates temporarily unavailable due to high service demand. Please drive carefully.")
              # Str("Unable to fetch live traffic data at this time.")

C9_Witness ==
    /\ caller = "live"
    /\ pc = "done"
    /\ retValue.t = "error"
    /\ IsRateLimitError(retValue)
    /\ calls = DefaultMaxRetries + 1
    /\ Get(result, "sources") = Arr(<<>>)

\* The weather fetch failed: retryGeminiCall threw, or the handling of its
\* response raised an error.
WeatherFailed == retValue.t = "error" \/ WeatherTry(retValue).kind = "throw"

\* C26: getWeatherLogistics never throws: on every failure, rate-limited or not,
\* it returns the fixed 'Unavailable' snapshot, and the initial weather fetch
\* never changes the session's error state.
C26_WeatherNeverThrows ==
    /\ [](caller = "weather" => pc # "escaped")
    /\ []((caller = "weather" /\ pc = "done" /\ WeatherFailed) =>
            /\ result = UnavailableWeather
            /\ weather \in {Null, UnavailableWeather})
    /\ [][caller = "weather" => error' = error]_vars

\* The fetch failed with an error that is not rate-limited and the snapshot shown
\* is the 'Unavailable' one; no error is shown.
C26_Witness ==
    /\ caller = "weather"
    /\ pc = "done"
    /\ retValue.t = "error"
    /\ ~IsRateLimitError(retValue)
    /\ weather = UnavailableWeather
    /\ error = Null

\* analyzeStreetConditions built its result on a fallback path: the generator
\* call failed, or the handling of its response raised an error.
StreetFellBack ==
    retValue.t = "error" \/ AnalyzeStreetTry(retValue, osmData).kind = "throw"

\* analyzeStreetConditions returned from its try block; `Generated` is the
\* generator's output it parsed.
StreetSucceeded ==
    /\ caller = "street" /\ pc = "done"
    /\ retValue.t = "response"
    /\ AnalyzeStreetTry(retValue, osmData).kind = "return"
Generated == JSONParse(retValue.text).value

\* C27: every StreetAnalysis that analyzeStreetConditions builds on a fallback
\* path and that has isTruckSuitable = false carries a restrictionReason.
C27_FallbackUnsuitableHasReason ==
    (caller = "street" /\ pc = "done" /\ StreetFellBack
        /\ Get(result, "isTruckSuitable") = Bool(FALSE)) =>
        Truthy(Get(result, "restrictionReason"))

\* The degraded fallback, the only one with a restrictionReason, is suitable.
FallbackReasonOnlyWhenSuitable ==
    (caller = "street" /\ pc = "done" /\ StreetFellBack) =>
        (Truthy(Get(result, "restrictionReason")) <=> Get(result, "isTruckSuitable") = Bool(TRUE))

\* C28: on the success path of analyzeStreetConditions the returned
\* isTruckSuitable equals the generator's isTruckSuitable for every verified
\* context and vehicle class; also with verified width 2.8 and the heaviest
\* vehicle class a generated true is returned unchanged.
C28_SuitabilityNotOverridden ==
    StreetSucceeded => Get(result, "isTruckSuitable") = Get(Generated, "isTruckSuitable")

\* Verified width 2.8, the heaviest vehicle class, the generator says suitable:
\* suitable is returned.
C28_Witness ==
    /\ StreetSucceeded
    /\ vehicleType = "LKW (Heavy > 7.5t)"
    /\ OsmWidth(osmData) = Str("2.8")
    /\ Get(Generated, "isTruckSuitable") = Bool(TRUE)
    /\ Get(result, "isTruckSuitable") = Bool(TRUE)

\* C29: on the success path of analyzeStreetConditions the returned lanes value
\* equals the verified context's lane count for every generator output, also
\* when the generator output carries a lanes value of its own; it is absent when
\* there is no verified context or the context has no lane count.
C29_LanesFromVerifiedContext ==
    StreetSucceeded =>
        Get(result, "lanes") = (IF osmData.t = "obj" THEN osmData.lanes ELSE Undef)

\* The generator says 3 lanes, the verified context 1: 1 is returned.
C29_Witness ==
    /\ StreetSucceeded
    /\ Get(Generated, "lanes") = Str("3")
    /\ OsmLanes(osmData) = Str("1")
    /\ Get(result, "lanes") = Str("1")

\* C30: on the success path of analyzeStreetConditions the returned streetWidth
\* is the generator's streetWidth when the generator supplies one, otherwise the
\* verified context's width (with its unit) when there is one, otherwise absent;
\* a generator-supplied width is never replaced by the verified width.
C30_WidthGeneratedFirst ==
    StreetSucceeded =>
        Get(result, "streetWidth") =
            (IF Truthy(Get(Generated, "streetWidth")) THEN Get(Generated, "streetWidth")
             ELSE IF osmData.t = "obj" /\ Truthy(osmData.width)
                  THEN Str(WidthWithUnit(osmData.width.v))
             ELSE Undef)

\* The generator says 'approx. 4m', the verified width is 2.8: the generator's
\* width is returned.
C30_Witness ==
    /\ StreetSucceeded
    /\ Get(Generated, "streetWidth") = Str("approx. 4m")
    /\ OsmWidth(osmData) = Str("2.8")
    /\ Get(result, "streetWidth") = Str("approx. 4m")

\* The generator's congestionCurve is an array of exactly 12 elements.
GeneratedCurveHasTwelve ==
    LET curve == Get(Generated, "congestionCurve") IN
    curve.t = "arr" /\ Len(curve.v) = 12

\* The curve analyzeStreetConditions returns on its success path: the generator's
\* when it has 12 elements, the fixed default otherwise.
ReturnsCurveOrDefault ==
    Get(result, "congestionCurve") =
        (IF GeneratedCurveHasTwelve THEN Get(Generated, "congestionCurve")
         ELSE Arr(<<2, 2, 3, 7, 9, 6, 5, 8, 9, 5, 3, 2>>))

\* The fields of the generator's object outside `outside` are returned unchanged.
ReturnsUnchangedOutside(outside) ==
    Generated.t = "obj" =>
        \A k \in DOMAIN Generated.v \ outside : Get(result, k) = Generated.v[k]

\* C31 as stated: on the success path of analyzeStreetConditions the returned
\* congestionCurve is the generator's curve when its length is exactly 12 and the
\* default [2,2,3,7,9,6,5,8,9,5,3,2] when it is missing or of another length, and
\* in that case every other generated field is returned unchanged.
C31_CurveDefaultKeepsAllOtherFields ==
    StreetSucceeded =>
        /\ ReturnsCurveOrDefault
        /\ ~GeneratedCurveHasTwelve => ReturnsUnchangedOutside({"congestionCurve"})

\* C31 (amended): the returned congestionCurve is the generator's curve when its
\* length is exactly 12 and the default otherwise; in that case the generated
\* fields other than streetWidth, lanes and lastUpdated are returned unchanged,
\* and so is a generated streetWidth that is a non-empty string.
C31_CurveDefaultKeepsUnmergedFields ==
    StreetSucceeded =>
        /\ ReturnsCurveOrDefault
        /\ ~GeneratedCurveHasTwelve =>
              /\ ReturnsUnchangedOutside({"congestionCurve", "streetWidth", "lanes", "lastUpdated"})
              /\ Truthy(Get(Generated, "streetWidth")) =>
                    Get(result, "streetWidth") = Get(Generated, "streetWidth")

\* The generator returns 11 entries and the width 'approx. 4m': the default curve
\* is returned with the generator's street name, score and width.
C31_Witness ==
    /\ StreetSucceeded
    /\ Get(Generated, "congestionCurve") = Arr(SubSeq(GoodCurve, 1, 11))
    /\ Get(Generated, "streetWidth") = Str("approx. 4m")
    /\ Get(result, "congestionCurve") = Arr(DefaultCurve)
    /\ Get(result, "streetName") = Str("Hohe Strasse")
    /\ Get(result, "congestionScore") = Num(6)
    /\ Get(result, "streetWidth") = Str("approx. 4m")

\* waits is an initial part of the sequence `all`
StartOf(all) == Len(waits) <= Len(all) /\ waits = SubSeq(all, 1, Len(waits))

\* C36: getWeatherLogistics invokes the remote call at most 3 times, with waits of
\* 2000 and 4000 ms; analyzeStreetConditions, analyzeRouteLogistics and
\* getLiveTrafficUpdates invoke it at most 5 times, with waits of 2500, 5000,
\* 10000 and 20000 ms.
C36_WeatherBudgetSmaller ==
    IF caller = "weather"
    THEN calls <= 3 /\ StartOf(<<2000, 4000>>)
    ELSE calls <= 5 /\ StartOf(<<2500, 5000, 10000, 20000>>)

\* The weather fetch gave up after its third rate-limited invocation, having
\* waited 2000 and 4000 ms.
C36_Witness ==
    /\ caller = "weather"
    /\ pc = "done"
    /\ calls = 3
    /\ waits = <<2000, 4000>>
    /\ retValue.t = "error"
    /\ IsRateLimitError(retValue)

\* An analysis call gave up after its fifth rate-limited invocation.
AnalysisBudgetSpent ==
    /\ caller \in {"street", "route", "live"}
    /\ pc = "done"
    /\ calls = 5
    /\ waits = <<2500, 5000, 10000, 20000>>

\* All five invocations of the generator failed rate-limited: the wrapper threw
\* the rate-limited error of the fifth, after the four waits.
AllFiveRateLimited ==
    /\ calls = 5
    /\ Len(waits) = 4
    /\ retValue.t = "error"
    /\ retValue.id = 5
    /\ IsRateLimitError(retValue)

\* C40: analyzeStreetConditions returns after at most 5 invocations of the
\* generator; it returns the degraded result only if all 5 invocations failed
\* rate-limited, and the failed result whenever the invocations ended with a
\* failure that is not rate-limited; the retry decision and the choice of
\* fallback class every error alike.
C40_DegradedOnlyAfterFiveRateLimited ==
    caller = "street" =>
        /\ calls <= 5
        /\ (pc = "done" /\ result = DegradedStreet(osmData)) => AllFiveRateLimited
        /\ (pc = "done" /\ retValue.t = "error" /\ ~IsRateLimitError(retValue)) =>
              result = FailedStreet(osmData)
        /\ \A shape \in ErrorShapes :
              LET err == MkError(1, shape.status, shape.code, shape.message) IN
              RetryIsRateLimit(err) <=> StreetIsRateLimit(err)

\* What holds of C40 when the generator call ended in a failure: at most 5
\* invocations, the degraded result exactly after five rate-limited failures,
\* the failed result after a failure that is not rate-limited.
FallbackFollowsThrownError ==
    caller = "street" =>
        /\ calls <= 5
        /\ (pc = "done" /\ retValue.t = "error") =>
              IF AllFiveRateLimited THEN result = DegradedStreet(osmData)
              ELSE /\ ~IsRateLimitError(retValue)
                   /\ result = FailedStreet(osmData)

\* The degraded result was returned although an invocation succeeded.
DegradedAfterSuccess ==
    /\ caller = "street"
    /\ pc = "done"
    /\ retValue.t = "response"
    /\ result = DegradedStreet(osmData)

(***************************************************************************)
(* Properties of the session handlers of App.tsx (checked under SpecApp)   *)
(***************************************************************************)
\* The results of request id that the session state holds.
Shows(id) == analysisOf = id \/ routeAnalysisOf = id \/ liveTrafficOf = id

\* C10: neither the analysis nor the live-conditions snapshot of a request is
\* committed before both the analysis call and the live-conditions call of that
\* request have completed: in every reachable state, a request of which the session
\* state holds a result (from handleLocationSelect in explore mode or from
\* handleCalculateRoute) has both of its calls settled, none pending.
C10_CommitOnlyAfterJoin ==
    \A id \in TaskIds : Shows(id) => tasks[id].aDone /\ tasks[id].lDone

\* Both results of a selection are held while a sibling request, started before
\* or after it, still waits for its live-conditions call.
C10_Witness ==
    \E id \in TaskIds, other \in TaskIds :
        /\ analysisOf = id
        /\ liveTrafficOf = id
        /\ analysis.t = "obj"
        /\ other # id
        /\ tasks[other].pc = "fanout"
        /\ tasks[other].aDone
        /\ ~tasks[other].lDone

\* What each branch of a request hands to the join for the way its remote call
\* ended: the merged or parsed response, the degraded payload after a rate-limited
\* failure, the failed payload after any other failure.
StreetPayload(ended, osm) ==
    IF ended.kind = "return" THEN AnalyzeStreetTry(ended.value, osm).value
    ELSE IF ended = RateLimitedEnding THEN DegradedStreet(osm) ELSE FailedStreet(osm)
RoutePayload(ended) ==
    IF ended.kind = "return" THEN AnalyzeRouteTry(ended.value).value
    ELSE IF ended = RateLimitedEnding THEN DegradedRoute ELSE FailedRoute
LivePayload(ended) ==
    IF ended.kind = "return" THEN LiveTry(ended.value).value
    ELSE IF ended = RateLimitedEnding THEN DegradedLive ELSE FailedLive

\* The handler of request id resumes from its join in this step.
JoinResumes(id) == tasks[id].pc = "fanout" /\ tasks'[id].pc # "fanout"

\* C11: for every combination of outcomes (success, rate-limited, other failure)
\* of the analysis branch and of the live-conditions branch of one request, both
\* results are committed and each committed value is the payload of that branch's
\* own outcome: every step in which a handler resumes from its join commits an
\* analysis payload and a live payload of that request and raises no error, and
\* at a settled join no pair of outcomes rejects the join, each branch's value
\* being the one its own outcome determines whatever the other branch's outcome.
C11_BranchesCommitIndependently ==
    /\ [][\A id \in TaskIds : JoinResumes(id) =>
            /\ error' = error
            /\ liveTrafficOf' = id
            /\ liveTraffic' \in {LivePayload(l) : l \in LiveEndings}
            /\ IF tasks[id].kind = "calc"
               THEN /\ routeAnalysisOf' = id
                    /\ routeAnalysis' \in {RoutePayload(a) : a \in RouteEndings}
               ELSE /\ analysisOf' = id
                    /\ analysis' \in {StreetPayload(a, tasks[id].osm) : a \in StreetEndings}]_vars
    /\ [](\A id \in TaskIds : (tasks[id].pc = "fanout" /\ JoinSettled(tasks[id])) =>
            \A l \in LiveEndings :
            \A a \in (IF tasks[id].kind = "calc" THEN RouteEndings ELSE StreetEndings) :
                LET aRes == IF tasks[id].kind = "calc"
                            THEN AnalyzeRouteLogistics(a)
                            ELSE AnalyzeStreetConditions(a, tasks[id].osm)
                    lRes == GetLiveTrafficUpdates(l)
                IN /\ ~JoinRejected(aRes, lRes)
                   /\ Fulfilled(aRes) = IF tasks[id].kind = "calc"
                                        THEN RoutePayload(a)
                                        ELSE StreetPayload(a, tasks[id].osm)
                   /\ Fulfilled(lRes) = LivePayload(l))

\* A selection whose analysis call failed and whose live-conditions call
\* succeeded: the failed analysis payload and the live summary are both held.
C11_Witness ==
    \E id \in TaskIds :
        /\ analysisOf = id
        /\ liveTrafficOf = id
        /\ Get(analysis, "description") = Str("Could not retrieve data from AI service. Please check API key configuration.")
        /\ Get(liveTraffic, "summary") = Str("A3 closed at Heumar.")
        /\ error = Null

\* C12: after handleModeSwitch(newMode) all state of the other mode is cleared:
\* after a switch to explore, routePoints, routeCoordinates, routeStreetNames and
\* routeAnalysis are empty/null; after a switch to route, analysis and
\* highlightedSegments are empty/null.
C12_ModeSwitchClearsOtherMode ==
    [][/\ ModeSwitch("explore") =>
            /\ routePoints' = <<>>
            /\ routeCoordinates' = <<>>
            /\ routeStreetNames' = <<>>
            /\ routeAnalysis' = Null
       /\ ModeSwitch("route") =>
            /\ analysis' = Null
            /\ highlightedSegments' = <<>>]_vars

\* The part of C12 that the handler does establish: a switch to explore empties
\* routePoints and routeCoordinates, a switch to route clears analysis and
\* highlightedSegments.
ModeSwitchClearsWhatItSets ==
    [][/\ ModeSwitch("explore") => routePoints' = <<>> /\ routeCoordinates' = <<>>
       /\ ModeSwitch("route") => analysis' = Null /\ highlightedSegments' = <<>>]_vars

(***************************************************************************)
(* Properties of the waypoint list (checked under SpecWaypoints)           *)
(***************************************************************************)
\* C13: when routePoints already holds 10 waypoints, a location select in route
\* mode (by a click or by a search result) leaves routePoints and the markers
\* unchanged and sets the message 'Max 10 waypoints allowed.'; and routePoints
\* holds at most 10 waypoints in every reachable state.
C13_EleventhWaypointRejected ==
    /\ [][(/\ Len(routePoints) = MaxWaypoints
           /\ mode = "route"
           /\ WaypointClick \/ WaypointFound) =>
                /\ routePoints' = routePoints
                /\ markers' = markers
                /\ error' = Str("Max 10 waypoints allowed.")]_vars
    /\ [](Len(routePoints) <= MaxWaypoints)

\* The part of C13 that holds: a click on the map with 10 waypoints held is
\* rejected without a change, and routePoints never holds more than 10.
EleventhClickRejected ==
    /\ [][(Len(routePoints) = MaxWaypoints /\ WaypointClick) =>
                /\ routePoints' = routePoints
                /\ markers' = markers
                /\ error' = Str("Max 10 waypoints allowed.")]_vars
    /\ [](Len(routePoints) <= MaxWaypoints)

\* A click is rejected at the cap.
EleventhClickSeen == Len(routePoints) = MaxWaypoints /\ error = Str("Max 10 waypoints allowed.")

(***************************************************************************)
(* Properties of route planning (checked under SpecPlanner)                *)
(***************************************************************************)
\* handleCalculateRoute of request id is called in this step / ends in this step
\* in its catch block because calculateRoute failed.
CalculateStarts(id) == Len(tasks) = id - 1 /\ Len(tasks') = id /\ tasks'[id].kind = "calc"
RoutingFails(id) == tasks[id].pc = "routing" /\ tasks'[id].pc = "finished"

\* C14: when calculateRoute fails inside handleCalculateRoute, exactly one error
\* message is set and the prior session state is intact: the handler changes
\* neither routePoints, routeCoordinates nor routeStreetNames, and routeAnalysis
\* and liveTraffic have the values they had before the action started.
C14_RoutingFailureLeavesState ==
    [][\A id \in 1..Len(tasks') :
          /\ CalculateStarts(id) =>
                UNCHANGED <<routePoints, routeCoordinates, routeStreetNames>>
          /\ (id <= Len(tasks) /\ RoutingFails(id)) =>
                /\ error' = Str("Failed to calculate or analyze route.")
                /\ UNCHANGED <<routePoints, routeCoordinates, routeStreetNames>>
                /\ routeAnalysis' = tasks[id].held.routeAnalysis
                /\ liveTraffic' = tasks[id].held.liveTraffic]_vars

\* The part of C14 that holds: one message, and routePoints, routeCoordinates
\* and routeStreetNames untouched by the handler.
RoutingFailureSetsOneMessage ==
    [][\A id \in 1..Len(tasks') :
          /\ CalculateStarts(id) =>
                UNCHANGED <<routePoints, routeCoordinates, routeStreetNames>>
          /\ (id <= Len(tasks) /\ RoutingFails(id)) =>
                /\ error' = Str("Failed to calculate or analyze route.")
                /\ UNCHANGED <<routePoints, routeCoordinates, routeStreetNames>>]_vars

(***************************************************************************)
(* Properties of the map-service functions (checked under SpecGeo)         *)
(***************************************************************************)
\* The routing service answers Ok with a route.
AnswersOkWithRoute(answer) ==
    /\ answer.kind = "response"
    /\ answer.ok
    /\ answer.json.kind = "return"
    /\ Get(answer.json.value, "code") = Str("Ok")
    /\ Get(answer.json.value, "routes").t = "arr"
    /\ Len(Get(answer.json.value, "routes").v) > 0

\* C15: calculateRoute rejects locally exactly the waypoint lists with fewer than
\* 2 points: for 0 or 1 points it fails with the invalid-input error before any
\* routing request is issued; for every list of 2 or more points, two identical
\* points included, it issues the request (one "lng,lat" pair per waypoint) and
\* returns a plan whenever the service answers Ok with a route.
C15_RejectsFewerThanTwoPoints ==
    geoFn = "calculateRoute" =>
        /\ (geoPc = "done" /\ Len(geoArgs) < 2) =>
              geoResult = Throw(RouteInvalidInput) /\ geoRequests = <<>>
        /\ (geoPc # "ready" /\ Len(geoArgs) >= 2) =>
              /\ Len(geoRequests) = 1
              /\ Len(geoRequests[1].coordinates) = Len(geoArgs)
        /\ (geoPc = "done" /\ Len(geoArgs) >= 2) =>
              /\ geoResult # Throw(RouteInvalidInput)
              /\ AnswersOkWithRoute(geoBackend) => geoResult.kind = "return"

\* Two identical waypoints: the request was issued and a plan was returned.
C15_Witness ==
    /\ geoFn = "calculateRoute"
    /\ geoPc = "done"
    /\ Len(geoArgs) = 2
    /\ geoArgs[1] = geoArgs[2]
    /\ Len(geoRequests) = 1
    /\ geoResult.kind = "return"

\* The response of the routing service has a code other than Ok or carries no route.
ReportsNoRoute(answer) ==
    /\ answer.kind = "response"
    /\ answer.json.kind = "return"
    /\ answer.json.value.t = "obj"
    /\ \/ Get(answer.json.value, "code") # Str("Ok")
       \/ ~Truthy(Get(answer.json.value, "routes"))
       \/ Len(Get(answer.json.value, "routes").v) = 0

\* C16: calculateRoute fails with the 'No route found.' error, and returns no
\* partial plan, whenever the response of the routing service has a code other
\* than Ok or carries no route.
C16_NoRouteFoundError ==
    (geoFn = "calculateRoute" /\ geoPc = "done" /\ Len(geoArgs) >= 2
        /\ ReportsNoRoute(geoBackend)) =>
            geoResult = Throw(NoRouteFound)

\* The part of C16 that holds: such a response never yields a plan, and it yields
\* the 'No route found.' error when its status is ok.
NoRouteNeverYieldsPlan ==
    (geoFn = "calculateRoute" /\ geoPc = "done" /\ Len(geoArgs) >= 2
        /\ ReportsNoRoute(geoBackend)) =>
            /\ geoResult.kind = "throw"
            /\ geoBackend.ok => geoResult = Throw(NoRouteFound)

\* The route a returned plan was built from, the positions <<leg, step>> of its
\* steps, the order in which the route lists them, and the named steps.
RouteOf(answer) == Get(answer.json.value, "routes").v[1]
StepPositions(route) ==
    {p \in (1..Len(route.legs)) \X (1..MaxSteps) : p[2] <= Len(route.legs[p[1]].steps)}
ComesBefore(p, q) == p[1] < q[1] \/ (p[1] = q[1] /\ p[2] < q[2])
NameAt(route, p) == route.legs[p[1]].steps[p[2]].name
NamedAs(route, name) == {p \in StepPositions(route) : NameAt(route, p) = Str(name)}
FirstOf(route, name) ==
    CHOOSE p \in NamedAs(route, name) : \A q \in NamedAs(route, name) : ~ComesBefore(q, p)

\* C17: the streetNames returned by calculateRoute contain every non-empty step
\* name of the route exactly once, in the order of each name's first occurrence
\* over the legs and steps, and nothing else (steps with an empty or missing name
\* contribute nothing).
C17_StreetNamesUniqueInOrder ==
    (geoFn = "calculateRoute" /\ geoPc = "done" /\ geoResult.kind = "return") =>
        LET route == RouteOf(geoBackend)
            names == geoResult.value.streetNames
        IN /\ \A p \in StepPositions(route) :
                  (NameAt(route, p).t = "str" /\ NameAt(route, p).v # "") =>
                      Cardinality({i \in 1..Len(names) : names[i] = NameAt(route, p).v}) = 1
           /\ \A i \in 1..Len(names) : names[i] # "" /\ NamedAs(route, names[i]) # {}
           /\ \A i \in 1..Len(names) : \A j \in 1..Len(names) :
                  i < j => ComesBefore(FirstOf(route, names[i]), FirstOf(route, names[j]))

\* A plan for a route on which a street name recurs in a later leg, after another
\* street and a step without a name.
C17_Witness ==
    /\ geoFn = "calculateRoute"
    /\ geoPc = "done"
    /\ geoResult.kind = "return"
    /\ Len(RouteOf(geoBackend).legs) = 2
    /\ NameAt(RouteOf(geoBackend), <<1, 1>>) = Str("Hohe Strasse")
    /\ Len(RouteOf(geoBackend).legs[2].steps) = 2
    /\ NameAt(RouteOf(geoBackend), <<2, 1>>) = Str("Aachener Strasse")
    /\ NameAt(RouteOf(geoBackend), <<2, 2>>) = Str("Hohe Strasse")
    /\ geoResult.value.streetNames = <<"Hohe Strasse", "Aachener Strasse">>

\* C18: the coordinates returned by calculateRoute have the same length and order
\* as the polyline of the routing service, each element being the service's
\* [longitude, latitude] pair swapped to [latitude, longitude]; the waypoints sent
\* to the service are serialised as longitude,latitude in the order of the list.
C18_CoordinatesSwapped ==
    geoFn = "calculateRoute" =>
        /\ (geoPc = "done" /\ geoResult.kind = "return") =>
              LET polyline == RouteOf(geoBackend).geometry.coordinates
                  coordinates == geoResult.value.coordinates
              IN /\ Len(coordinates) = Len(polyline)
                 /\ \A i \in 1..Len(polyline) :
                        /\ coordinates[i][1] = polyline[i][2]
                        /\ coordinates[i][2] = polyline[i][1]
        /\ geoRequests # <<>> =>
              /\ Len(geoRequests[1].coordinates) = Len(geoArgs)
              /\ \A i \in 1..Len(geoArgs) :
                     geoRequests[1].coordinates[i] = <<geoArgs[i].lng, geoArgs[i].lat>>

\* A plan for two different waypoints over a polyline of two different vertices.
C18_Witness ==
    /\ geoFn = "calculateRoute"
    /\ geoPc = "done"
    /\ geoResult.kind = "return"
    /\ geoArgs = <<Point(51, 7), Point(50, 6)>>
    /\ geoRequests[1].coordinates = <<<<7, 51>>, <<6, 50>>>>
    /\ RouteOf(geoBackend).geometry.coordinates = <<<<6, 50>>, <<7, 51>>>>
    /\ geoResult.value.coordinates = <<<<50, 6>>, <<51, 7>>>>

\* geocodeStreet with zero results from the search service returns null, and it
\* returns (never throws) whatever the service answers.
GeocodeEmptyIsNotFound ==
    (geoFn = "geocodeStreet" /\ geoPc = "done") =>
        /\ geoResult.kind = "return"
        /\ geoBackend = HttpResponse(TRUE, "OK", Return(Arr(<<>>))) => geoResult = Return(Null)

\* C19 (checked under SpecApp): a geocoding search with zero results is a valid
\* empty result and not an error: geocodeStreet returns not-found without
\* throwing, and handleSearch then completes without putting the session into
\* the user-visible error state.
C19_EmptySearchIsNoError ==
    [][(\E id \in TaskIds : GeocodeNotFound(id)) => error' = Null]_vars

\* getNearestStreetDetails never throws: nothing within the radius, a refused
\* request, an unreadable body and a failed fetch all end in null.
NearestStreetNeverThrows ==
    (geoFn = "getNearestStreetDetails" /\ geoPc = "done") =>
        /\ geoResult.kind = "return"
        /\ (geoBackend.kind = "reject" \/ ~geoBackend.ok \/ geoBackend.json.kind = "throw"
              \/ Get(geoBackend.json.value, "elements").t # "arr"
              \/ Get(geoBackend.json.value, "elements").v = <<>>) => geoResult.value.t = "null"

\* The street lookup of request id resolves in this step with no street.
LookupYieldsNone(id) ==
    tasks[id].pc = "osm" /\ tasks'[id].pc # "osm" /\ tasks'[id].osm.t = "null"

\* Request id is an explore-mode selection without verified context.
SelectWithoutContext(id) ==
    tasks[id].kind = "select" /\ tasks[id].pc = "fanout" /\ tasks[id].osm.t = "null"

\* C20 (checked under SpecApp): when getNearestStreetDetails yields none, an
\* explore-mode location select still runs the street analysis without verified
\* context and the live-conditions query keyed by the coordinates, commits both
\* results and sets no error: the step in which the lookup resolves with null
\* starts both calls and leaves the error alone, the live query of such a request
\* is about the coordinates of the click, and the step in which the request
\* resumes from its join commits an analysis computed without context and a live
\* result, both of that request, and leaves the error alone.
C20_NoStreetStillAnalyzes ==
    /\ [][\A id \in TaskIds : LookupYieldsNone(id) =>
            /\ tasks'[id].pc = "fanout"
            /\ ~tasks'[id].aDone /\ ~tasks'[id].lDone
            /\ error' = error]_vars
    /\ [](\A id \in TaskIds : SelectWithoutContext(id) =>
            tasks[id].query = [street |-> "", coordinates |-> tasks[id].coords])
    /\ [][\A id \in TaskIds : (SelectWithoutContext(id) /\ JoinResumes(id)) =>
            /\ analysisOf' = id
            /\ analysis' \in {StreetPayload(a, Null) : a \in StreetEndings}
            /\ liveTrafficOf' = id
            /\ liveTraffic' \in {LivePayload(l) : l \in LiveEndings}
            /\ error' = error]_vars

\* A selection whose lookup found no street has committed its analysis and its
\* live result, and no error is shown.
C20_Witness ==
    \E id \in TaskIds :
        /\ tasks[id].kind = "done"
        /\ analysisOf = id /\ liveTrafficOf = id
        /\ analysis \in {StreetPayload(a, Null) : a \in StreetEndings}
        /\ analysis \notin {StreetPayload(a, osm) : a \in StreetEndings, osm \in SessionOsm \ {Null}}
        /\ error = Null

\* The lookup of getStreetGeometry failed: the request was refused or never
\* answered, or the body could not be parsed.
GeometryLookupFailed ==
    \/ geoBackend.kind = "reject"
    \/ ~geoBackend.ok
    \/ geoBackend.json.kind = "throw"

\* C21 (checked under SpecGeo): getStreetGeometry never fails to its caller: it
\* always returns a sequence of segments, and on a non-ok transport status, a
\* thrown transport error or an unparseable body that sequence is empty.
C21_GeometryNeverFails ==
    (geoFn = "getStreetGeometry" /\ geoPc = "done") =>
        /\ geoResult.kind = "return"
        /\ GeometryLookupFailed => geoResult.value = <<>>

\* A call whose body could not be parsed has returned the empty sequence.
C21_Witness ==
    /\ geoFn = "getStreetGeometry" /\ geoPc = "done"
    /\ geoBackend.kind = "response" /\ geoBackend.ok /\ geoBackend.json.kind = "throw"
    /\ geoResult = Return(<<>>)

\* (checked under SpecApp) the step in which the outline lookup of a selection
\* resolves, with segments or with none, changes neither the committed analysis
\* nor the error state.
OutlineLeavesAnalysisAndError ==
    [][\A id \in TaskIds : (tasks[id].pc = "outline" /\ tasks'[id].pc # "outline") =>
            /\ analysis' = analysis /\ analysisOf' = analysisOf
            /\ error' = error]_vars

(***************************************************************************)
(* Properties of the route animator (checked under SpecAnimator)           *)
(***************************************************************************)
\* The animator is Playing: an animation frame is requested.
Playing == requestRef # Null

\* The requested frame and the latest computed frame belong to the polyline and
\* the vehicle now shown: clearing or replacing the polyline cancels the frame
\* requested for the old one.
PendingTickIsForCurrentPolyline ==
    /\ Playing => (requestRef.route = routeCoordinates /\ requestRef.vehicleType = selectedVehicle)
    /\ frame # Null => frame.route = routeCoordinates
    /\ routeCoordinates = <<>> => ~Playing

\* C22: the route animator is Playing (a tick is scheduled) exactly when the
\* current polyline has at least 2 points and is Idle otherwise, and the tick
\* that is scheduled is one for the current polyline: when the polyline is
\* cleared the pending tick is cancelled and none runs for the old polyline.
C22_PlayingIffTwoPoints ==
    /\ Playing <=> Len(routeCoordinates) >= 2
    /\ PendingTickIsForCurrentPolyline

\* The animator is Playing exactly when the polyline has two points or more and
\* a total length that is not zero.
PlayingIffPolylineHasLength ==
    Playing <=> (Len(routeCoordinates) >= 2 /\ SegmentsOf(routeCoordinates).totalDist > 0)

\* C23: whenever the route polyline is replaced by another polyline, also when a
\* non-empty polyline is replaced directly by a new route calculation, the
\* animator's progress restarts at 0: the first tick after the replacement
\* computes progress 0.
C23_ReplacementRestartsProgress ==
    [][(frame = Null /\ frame' # Null) => frame'.sinceCycle = 0]_vars

\* The first tick of a freshly mounted animator computes progress 0.
FreshMountStartsAtZero ==
    [][(frame = Null /\ frame' # Null /\ startTimeRef = 0) => frame'.sinceCycle = 0]_vars

Ticks == \E step \in FrameSteps : AnimationFrame(step)

\* C25 (checked under SpecAnimatorFair): while the animator is Playing every tick
\* schedules the next tick, so ticks occur infinitely often; the progress
\* fraction (elapsed mod 10000) / 10000 stays in [0,1) and wraps back to 0 after
\* each cycle and does not stop at the end of the polyline: from one tick to the
\* next of the same animation it advances by the time passed, modulo the cycle.
C25_LoopsForever ==
    /\ [][Ticks => Playing']_vars
    /\ [](frame # Null => (frame.sinceCycle >= 0 /\ frame.sinceCycle < DURATION))
    /\ [][(Ticks /\ frame # Null) =>
            frame'.sinceCycle
               = (frame.sinceCycle + Since(frameTime', frameTime)) % DURATION]_vars
    /\ ([]<>(~Playing) \/ []<><<Ticks>>_vars)

\* A tick one full cycle after the start of the animation: progress is 0 again.
C25_Witness ==
    /\ frame # Null
    /\ Since(frame.time, frame.start) = DURATION
    /\ frame.sinceCycle = 0
    /\ frame.lat.n = frame.route[1][1] * frame.lat.d

(***************************************************************************)
(* Properties of the waypoint list and of overlapping requests             *)
(* (checked under SpecApp)                                                 *)
(***************************************************************************)
\* This step is a handleClearRoute or a handleModeSwitch.
ClearsOrSwitches == ClearRoute \/ ModeSwitchAny

\* C32: between clears and mode switches routePoints only grows by appending:
\* every step that changes it appends exactly one point at its end, also the
\* step of a search result that arrives after a click was handled.
C32_WaypointsAppendOnly ==
    [][ClearsOrSwitches \/ routePoints' = routePoints
        \/ \E c \in 1..MaxEvents : routePoints' = Append(routePoints, c)]_vars

\* The part of C32 that holds: a click on the map in route mode appends the
\* clicked point to the waypoints held.
ClickAppendsWaypoint ==
    [][(MapClick /\ mode = "route") =>
          routePoints' = Append(routePoints, Len(tasks) + 1)]_vars

\* A search result was added to the waypoints the search started with, not to
\* the waypoints held: the click handled in between is gone.
SearchResultDropsClick ==
    \E id \in TaskIds :
        /\ mode = "route"
        /\ Len(routePoints) = 1
        /\ id < Len(tasks)
        /\ routePoints[1] = id
        /\ \E m \in 1..Len(markers) : markers[m].position # id

\* C33: in-flight requests are never cancelled: starting a request, switching
\* the mode, changing the vehicle or clearing the route leaves every awaiting
\* handler awaiting, and a selection whose responses have arrived commits its
\* analysis and its live snapshot whatever was issued or committed since; so the
\* analysis held is that of the request whose responses arrived last.
C33_LastResponseWins ==
    /\ [][\A id \in TaskIds : Len(tasks') > Len(tasks) => tasks'[id] = tasks[id]]_vars
    /\ [][(ModeSwitchAny \/ VehicleChangeAny \/ ClearRoute) => tasks' = tasks]_vars
    /\ [][\A id \in TaskIds : (tasks[id].kind = "select" /\ JoinResumes(id)) =>
              /\ analysisOf' = id
              /\ analysis'.t = "obj"
              /\ liveTrafficOf' = id]_vars

\* Selection 1 was issued before selection 2 (whose marker is shown) and its
\* responses arrived after those of selection 2: at quiescence the analysis and
\* the live snapshot held are those of selection 1.
C33_Witness ==
    /\ Len(tasks) = 2
    /\ InFlight = 0
    /\ mode = "explore"
    /\ markers = <<UserMarker(2)>>
    /\ analysisOf = 1
    /\ liveTrafficOf = 1
    /\ analysis.t = "obj"

\* The handler of request id asks getStreetGeometry for the outline in this step.
OutlineRequested(id) == tasks[id].pc # "outline" /\ tasks'[id].pc = "outline"

\* C34: the outline lookup is requested only by an explore-mode selection, and
\* highlightedSegments is empty in every reachable state whose mode is route,
\* also when an outline response arrives after the switch to route mode.
C34_HighlightOnlyInExplore ==
    /\ [][\A id \in TaskIds : OutlineRequested(id) =>
              tasks[id].kind = "select" /\ tasks[id].mode = "explore"]_vars
    /\ [](mode = "route" => highlightedSegments = <<>>)

\* The part of C34 that holds: only a selection made in explore mode requests
\* the outline, and a switch of the mode empties highlightedSegments.
OutlineOnlyForExploreSelection ==
    /\ [][\A id \in TaskIds : OutlineRequested(id) =>
              tasks[id].kind = "select" /\ tasks[id].mode = "explore"]_vars
    /\ [][ModeSwitchAny => highlightedSegments' = <<>>]_vars

\* An outline is highlighted in route mode.
HighlightInRouteMode == mode = "route" /\ highlightedSegments # <<>>

\* C37: no user action leaves the loading flag stuck: whenever every handler has
\* run to its end, so that no remote call is in flight, loading is false; also
\* after a search whose geocoding succeeded while the mode is route.
C37_LoadingNeverStuck == InFlight = 0 => ~loading

\* The handler of request id runs to its end in this step (the outline callback,
\* which runs after the handler has ended, is not meant).
HandlerEnds(id) ==
    tasks[id].pc \notin {"finished", "outline"} /\ tasks'[id].pc \in {"finished", "outline"}

\* The part of C37 that holds: every handler ends with loading false, but for a
\* search submitted in route mode whose geocoding succeeded.
LoadingClearedButByRouteSearch ==
    [][\A id \in TaskIds : HandlerEnds(id) =>
          \/ loading' = FALSE
          \/ tasks[id].pc = "geocode" /\ tasks[id].mode = "route"]_vars

\* Nothing is in flight, the search result is a waypoint, and loading is true.
LoadingStuckAfterRouteSearch ==
    /\ InFlight = 0
    /\ loading
    /\ mode = "route"
    /\ Len(routePoints) = 1

\* C38: whenever analysis or routeAnalysis is not null it was computed for the
\* vehicle class that is selected: a handler that commits its analysis asked for
\* it with the vehicle class selected at the commit, and no result is held over
\* a change of the vehicle class, also when a response arrives after the change.
C38_ResultsMatchSelectedVehicle ==
    /\ [][\A id \in TaskIds : JoinResumes(id) => tasks[id].vehicle = selectedVehicle']_vars
    /\ [][selectedVehicle' # selectedVehicle =>
              analysis' = Null /\ routeAnalysis' = Null]_vars

\* The part of C38 that holds: onVehicleChange drops the results held, and a
\* handler asks for its analysis with the vehicle class selected when it started.
VehicleChangeDropsResultsHeld ==
    /\ [][VehicleChangeAny =>
              analysis' = Null /\ routeAnalysis' = Null /\ liveTraffic' = Null]_vars
    /\ [][\A id \in 1..Len(tasks') :
              (id > Len(tasks) /\ tasks'[id].pc # "finished") =>
                  tasks'[id].vehicle = selectedVehicle]_vars

(***************************************************************************)
(* Properties of the routing requests (checked under SpecRouteRequests)    *)
(***************************************************************************)
\* C35: every routing request handleCalculateRoute issues carries between 2 and
\* 10 waypoints, and routePoints never holds more than 10.
C35_RequestsCarryTwoToTen ==
    /\ Len(routePoints) <= 10
    /\ \A id \in TaskIds :
          tasks[id].pc = "routing" =>
              Len(tasks[id].points) >= 2 /\ Len(tasks[id].points) <= 10

\* A routing request with 10 waypoints is pending.
C35_Witness ==
    \E id \in TaskIds :
        /\ tasks[id].kind = "calc"
        /\ tasks[id].pc = "routing"
        /\ Len(tasks[id].points) = 10
        /\ routePoints = tasks[id].points

\* A routing request with 2 waypoints is pending.
TwoPointRequest ==
    \E id \in TaskIds : tasks[id].pc = "routing" /\ Len(tasks[id].points) = 2

(***************************************************************************)
(* Properties of the route polyline (checked under SpecPlanner)            *)
(***************************************************************************)
\* C39: whenever routeCoordinates is not empty, routePoints holds at least 2
\* waypoints, also when handleClearRoute or a switch to explore mode happens
\* while a route calculation is in flight.
C39_PolylineHasWaypoints == routeCoordinates # <<>> => Len(routePoints) >= 2

\* The part of C39 that holds: a clear and a switch to explore mode empty the
\* waypoints and the polyline together, and a polyline is set only for a request
\* that carried at least 2 waypoints.
PolylineClearedWithWaypoints ==
    /\ [][(ClearRoute \/ ModeSwitch("explore")) =>
              routePoints' = <<>> /\ routeCoordinates' = <<>>]_vars
    /\ [][\A id \in TaskIds :
              (tasks[id].pc = "routing" /\ tasks'[id].pc = "fanout") =>
                  Len(tasks[id].points) >= 2 /\ routeCoordinates' = tasks[id].points]_vars
    /\ [][routeCoordinates' \notin {routeCoordinates, <<>>} =>
              \E id \in TaskIds : tasks[id].pc = "routing" /\ tasks'[id].pc = "fanout"]_vars

\* A polyline is drawn and animated over an empty waypoint list.
PolylineWithoutWaypoints == routeCoordinates # <<>> /\ routePoints = <<>> /\ markers = <<>>

====
